---- MODULE Spec2Model ----
(***************************************************************************)
(* Token pool and retry controller of Warp2Api.                            *)
(*                                                                         *)
(* The store (TokenPool) is modelled field by field; refresh tokens are    *)
(* the integers 1..MaxTokens (those of the configuration) and the next      *)
(* ones (those anonymous provisioning adds), an access credential (JWT) is  *)
(* named by the refresh token of the identity it was minted for, and        *)
(* time.time() is the variable now, in seconds.                             *)
(***************************************************************************)
EXTENDS Integers, Sequences, FiniteSets, TLC

(* ------------------------------ bounds -------------------------------- *)
MaxTokens == 3
MaxTicks == 1
TickSize == 60
MaxFailureCount == 3
NumRequests == 2
NumCallers == 3

(* ------------------------- program constants -------------------------- *)
ANONYMOUS == 1
SHARED == 2
PERSONAL == 3
max_failures == 3
JwtMargin == 120

TokenPriority == {ANONYMOUS, SHARED, PERSONAL}
PersonalFirst == <<PERSONAL, SHARED, ANONYMOUS>>
\* the order in which both selectors walk the classes
PriorityOrder == <<ANONYMOUS, SHARED, PERSONAL>>

TokenIds == 1..MaxTokens
\* the refresh tokens a store can hold: those of the configuration and the
\* ones provisioned by the requests (each request provisions at most once)
StoreIds == 1..(MaxTokens + NumRequests)
None == 0
\* credentials: NoJwt is the empty string, Jwt(t) the access token minted for
\* refresh token t, EnvJwt the JWT of the configuration (get_valid_jwt)
NoJwt == 0
Jwt(t) == t
EnvJwt == MaxTokens + NumRequests + 1

Requests == 1..NumRequests
\* the coroutines of the event loop that call the store
Callers == 1..NumCallers

VARIABLES
    tokens,            \* TokenPool._tokens: sequence of TokenInfo records
    current_index,     \* TokenPool._current_index: cursor of get_next_token
    last_used_index,   \* TokenPool._last_used_index: cursor of get_next_token_excluding
    failed_tokens,     \* TokenPool._failed_tokens: set of refresh tokens
    now,               \* time.time()
    ret,               \* the selector call made by the last step, and its result
    req,               \* per request: the locals of send_protobuf_to_warp_api[_parsed]
    hist,              \* results of the latest get_next_token calls (see Observe)
    lock,              \* TokenPool._lock: the coroutine that holds it, or None
    sse                \* the component under study: the SSE loop of both drivers
                       \* (accumulators and results), the two drivers run one after
                       \* the other, the global _token_pool and its first callers,
                       \* the coroutines of the event loop around the store's lock,
                       \* or a call of a handler wrapped with require_auth

vars == <<tokens, current_index, last_used_index, failed_tokens, now, ret, req, hist,
          lock, sse>>
pool == <<tokens, current_index, last_used_index, failed_tokens>>

NoCall == [op |-> "none", arg |-> None, res |-> None]

\* no answer with status 200 is being read
NoStream == [pc |-> "closed"]

\* no body of an answer is being read
NoResponse == [status |-> 0, quota |-> FALSE]

(* ------------------------------ TokenInfo ----------------------------- *)
TokenInfo(refresh_token, priority) ==
    [refresh_token |-> refresh_token, priority |-> priority,
     last_used |-> 0, failure_count |-> 0, is_active |-> TRUE,
     last_jwt |-> NoJwt, last_jwt_expiry |-> 0]

ZeroIndex == [p \in TokenPriority |-> 0]

\* position of a refresh token in the list, 0 when absent
IndexOf(toks, rt) ==
    IF \E i \in 1..Len(toks) : toks[i].refresh_token = rt
    THEN CHOOSE i \in 1..Len(toks) : toks[i].refresh_token = rt
    ELSE 0

AppendUnchecked(toks, refresh_token, priority) ==
    Append(toks, TokenInfo(refresh_token, priority))

AddOrSetPriority(toks, refresh_token, priority) ==
    IF \E i \in 1..Len(toks) : toks[i].refresh_token = refresh_token
    THEN [toks EXCEPT ![CHOOSE i \in 1..Len(toks) :
                           toks[i].refresh_token = refresh_token].priority = priority]
    ELSE Append(toks, TokenInfo(refresh_token, priority))

AddTokenInternal(toks, refresh_token, priority) ==
    IF \E i \in 1..Len(toks) : toks[i].refresh_token = refresh_token
    THEN toks
    ELSE Append(toks, TokenInfo(refresh_token, priority))

RECURSIVE AddAll(_, _, _)
AddAll(toks, list, priority) ==
    IF list = <<>> THEN toks
    ELSE AddAll(AddTokenInternal(toks, Head(list), priority), Tail(list), priority)

\* initialize(): anonymous token first, then the shared list, then the personal list
Initialize(anonymous_token, shared_tokens, personal_tokens) ==
    LET a == IF anonymous_token # None
             THEN AddTokenInternal(<<>>, anonymous_token, ANONYMOUS)
             ELSE <<>>
        s == AddAll(a, shared_tokens, SHARED)
    IN  AddAll(s, personal_tokens, PERSONAL)

(* ------------------------------ selectors ----------------------------- *)
Indices(toks) == [i \in 1..Len(toks) |-> i]

NotInFailedSet(toks, failed, i) ==
    toks[i].refresh_token \notin failed

Selectable(toks, failed, i) ==
    toks[i].is_active /\ toks[i].refresh_token \notin failed

\* the list comprehension of _get_token_by_priority, as positions in tokens
PriorityTokens(toks, failed, priority) ==
    SelectSeq(Indices(toks),
              LAMBDA i : toks[i].priority = priority /\ Selectable(toks, failed, i))

ExcludingNothing(toks, failed, priority, exclude_token) ==
    PriorityTokens(toks, failed, priority)

\* the list comprehension of get_next_token_excluding
PriorityTokensExcluding(toks, failed, priority, exclude_token) ==
    SelectSeq(Indices(toks),
              LAMBDA i : /\ toks[i].priority = priority
                         /\ Selectable(toks, failed, i)
                         /\ (exclude_token = None \/ toks[i].refresh_token # exclude_token))

CursorNotAdvanced(toks, failed, cur, priority) ==
    LET priority_tokens == PriorityTokens(toks, failed, priority)
        n == Len(priority_tokens)
    IN  IF n = 0
        THEN [tok |-> None, cur |-> cur]
        ELSE [tok |-> priority_tokens[(cur[priority] % n) + 1], cur |-> cur]

\* _get_token_by_priority: the chosen position (0 = None) and the cursor map after it
GetTokenByPriority(toks, failed, cur, priority) ==
    LET priority_tokens == PriorityTokens(toks, failed, priority)
        n == Len(priority_tokens)
    IN  IF n = 0
        THEN [tok |-> None, cur |-> cur]
        ELSE [tok |-> priority_tokens[(cur[priority] % n) + 1],
              cur |-> [cur EXCEPT ![priority] = (cur[priority] + 1) % n]]

\* the loop of get_next_token over the classes, from position k of PriorityOrder
RECURSIVE NextTokenFrom(_, _, _, _)
NextTokenFrom(toks, failed, cur, k) ==
    IF k > Len(PriorityOrder)
    THEN [tok |-> None, cur |-> cur]
    ELSE LET r == GetTokenByPriority(toks, failed, cur, PriorityOrder[k])
         IN  IF r.tok # None THEN r
             ELSE NextTokenFrom(toks, failed, r.cur, k + 1)

\* the loop of get_next_token_excluding over the classes
RECURSIVE NextExcludingFrom(_, _, _, _, _)
NextExcludingFrom(toks, failed, lui, exclude_token, k) ==
    IF k > Len(PriorityOrder)
    THEN [tok |-> None, cur |-> lui]
    ELSE LET priority == PriorityOrder[k]
             priority_tokens ==
                 PriorityTokensExcluding(toks, failed, priority, exclude_token)
             n == Len(priority_tokens)
             idx == lui[priority] % n
         IN  IF n > 0
             THEN [tok |-> priority_tokens[idx + 1],
                   cur |-> [lui EXCEPT ![priority] = (idx + 1) % n]]
             ELSE NextExcludingFrom(toks, failed, lui, exclude_token, k + 1)

Touch(toks, i, t) ==
    IF i = None THEN toks ELSE [toks EXCEPT ![i].last_used = t]

\* get_next_token as a function of the store: new store fields and the result
get_next_token(toks, failed, cur, t) ==
    LET r == NextTokenFrom(toks, failed, cur, 1)
    IN  [tokens |-> Touch(toks, r.tok, t), current_index |-> r.cur, tok |-> r.tok]

get_next_token_excluding(toks, failed, lui, exclude_token, t) ==
    LET r == NextExcludingFrom(toks, failed, lui, exclude_token, 1)
    IN  [tokens |-> Touch(toks, r.tok, t), last_used_index |-> r.cur, tok |-> r.tok]

\* get_last_used_token: first record holding the greatest last_used > 0
get_last_used_token(toks) ==
    LET used == {i \in 1..Len(toks) : toks[i].last_used > 0}
    IN  IF used = {} THEN None
        ELSE CHOOSE i \in used :
                 \A j \in used : \/ toks[j].last_used < toks[i].last_used
                                 \/ (toks[j].last_used = toks[i].last_used /\ i <= j)

(* --------------------------- failure accounting ----------------------- *)
mark_token_failed_late(toks, failed, i) ==
    LET fc == toks[i].failure_count + 1
    IN  IF fc > max_failures
        THEN [tokens |-> [toks EXCEPT ![i].failure_count = fc, ![i].is_active = FALSE],
              failed_tokens |-> failed \cup {toks[i].refresh_token}]
        ELSE [tokens |-> [toks EXCEPT ![i].failure_count = fc],
              failed_tokens |-> failed]

mark_token_failed(toks, failed, i) ==
    LET fc == toks[i].failure_count + 1
    IN  IF fc >= max_failures
        THEN [tokens |-> [toks EXCEPT ![i].failure_count = fc, ![i].is_active = FALSE],
              failed_tokens |-> failed \cup {toks[i].refresh_token}]
        ELSE [tokens |-> [toks EXCEPT ![i].failure_count = fc],
              failed_tokens |-> failed]

SuccessKeepsFailedSet(toks, failed, i, jwt, jwt_expiry) ==
    [tokens |-> [toks EXCEPT ![i].failure_count = 0], failed_tokens |-> failed]

mark_token_success(toks, failed, i, jwt, jwt_expiry) ==
    LET cleared == [toks EXCEPT ![i].failure_count = 0]
    IN  [tokens |-> IF jwt # NoJwt
                    THEN [cleared EXCEPT ![i].last_jwt = jwt,
                                         ![i].last_jwt_expiry = jwt_expiry]
                    ELSE cleared,
         failed_tokens |-> failed \ {toks[i].refresh_token}]

Recoverable(toks, i) ==
    ~toks[i].is_active /\ toks[i].failure_count >= max_failures

recover_keeps_failed_set(toks, failed) ==
    LET hit == {i \in 1..Len(toks) : Recoverable(toks, i)}
    IN  [tokens |-> [i \in 1..Len(toks) |->
                        IF i \in hit
                        THEN [toks[i] EXCEPT !.failure_count = 0, !.is_active = TRUE]
                        ELSE toks[i]],
         failed_tokens |-> failed,
         recovered |-> Cardinality(hit)]

recover_failed_tokens(toks, failed) ==
    LET hit == {i \in 1..Len(toks) : Recoverable(toks, i)}
    IN  [tokens |-> [i \in 1..Len(toks) |->
                        IF i \in hit
                        THEN [toks[i] EXCEPT !.failure_count = 0, !.is_active = TRUE]
                        ELSE toks[i]],
         failed_tokens |-> failed \ {toks[i].refresh_token : i \in hit},
         recovered |-> Cardinality(hit)]

(* --------------------------- request locals --------------------------- *)
\* the locals of one call of send_protobuf_to_warp_api (odd requests) or
\* send_protobuf_to_warp_api_parsed (even requests), and what the call did
NewRequest ==
    [pc |-> "idle",
     attempt |-> 0,                  \* the loop variable of "for attempt in range(2)"
     jwt |-> NoJwt,                  \* the credential of the authorization header
     current_token_refresh |-> None,
     token_info |-> None,            \* position of the record being refreshed
     posts |-> 0,                    \* upstream POSTs opened so far
     first_jwt |-> NoJwt,            \* credential of the first POST
     first_status |-> 0,             \* status of the first answer, noted when the
                                     \* driver has read it (a body other than
                                     \* the event lines included)
     first_quota |-> FALSE,          \* whether its body held a quota message
     response |-> NoResponse,        \* the answer whose body "await
                                     \* response.aread()" is reading
     rotated |-> FALSE,              \* get_next_token_excluding was called
     excl_arg |-> None,              \* its argument
     alt |-> None,                   \* the refresh token of the record it returned
     alt_ok |-> FALSE,               \* a credential of that record was obtained
     provisions |-> 0,               \* calls of acquire_anonymous_access_token
     outcome |-> "none",             \* "ok" or "fail" from the return statement on
     status |-> 0,                   \* status reported by the failure
     used |-> None,                  \* position of the record whose credential went last
     fc_sent |-> 0,                  \* its failure_count when the last POST was opened
     fc_end |-> 0,                   \* its failure_count when the request returned
     sel |-> None,                   \* refresh token of the record get_next_token returned
     sel_has_jwt |-> FALSE,          \* that record held a cached credential then
     sel_remaining |-> 0,            \* last_jwt_expiry - time.time() of that record then
     initial_refresh |-> FALSE,      \* the refresh of api_client.py:107 was invoked
     alt_cache_hit |-> FALSE,        \* the alternate's cached credential was taken (192)
     alt_remaining |-> 0,            \* last_jwt_expiry - time.time() of the alternate then
     alt_refresh |-> FALSE,          \* the refresh of api_client.py:199/233 was invoked
     mutated |-> {},                 \* refresh tokens of the records this request wrote
     marked |-> {},                  \* those its refresh applied mark_token_success to
     cancelled |-> FALSE]            \* the caller cancelled the request

Driver(r) == IF r % 2 = 1 THEN "plain" ELSE "parsed"

(* ------------------------------ read-only views ------------------------ *)
\* get_pool_stats: the totals of the store
get_pool_stats(toks, failed) ==
    [total_tokens |-> Len(toks),
     active_tokens |-> Cardinality({i \in 1..Len(toks) : toks[i].is_active}),
     failed_tokens |-> Cardinality(failed)]

\* health_check: healthy = active and not in the failed set
health_check(toks, failed) ==
    LET healthy == {i \in 1..Len(toks) :
                      toks[i].is_active /\ toks[i].refresh_token \notin failed}
    IN  [total_tokens |-> Len(toks),
         healthy_tokens |-> Cardinality(healthy),
         unhealthy_tokens |-> Len(toks) - Cardinality(healthy)]

(* ------------------------------- Init ---------------------------------- *)
\* the environment's token lists (WARP_ANONYMOUS_TOKEN or the built-in token,
\* WARP_SHARED_TOKENS, WARP_REFRESH_TOKEN / WARP_PERSONAL_TOKENS)
EnvConfigs ==
    { <<1, <<>>, <<>>>>, <<1, <<>>, <<2>>>>, <<1, <<2>>, <<>>>>,
      <<None, <<>>, <<1>>>>, <<1, <<2>>, <<1, 3>>>> }

Init ==
    /\ \E env \in EnvConfigs : tokens = Initialize(env[1], env[2], env[3])
    /\ current_index = ZeroIndex
    /\ last_used_index = ZeroIndex
    /\ failed_tokens = {}
    /\ now = TickSize
    /\ ret = NoCall
    /\ req = [r \in Requests |-> NewRequest]
    /\ hist = <<>>
    /\ lock = None
    /\ sse = NoStream

(* ------------------------- store operations ---------------------------- *)
\* Each store operation is one step here, from the call to the return. The
\* steps of its body under "async with self._lock" are taken one by one, among
\* the other coroutines of the event loop, under SpecLock.
AddToken(refresh_token, priority) ==
    /\ UNCHANGED lock
    /\ refresh_token <= Len(tokens) + 1
    /\ tokens' = AddTokenInternal(tokens, refresh_token, priority)
    /\ ret' = NoCall
    /\ UNCHANGED <<current_index, last_used_index, failed_tokens, now, req>>

GetNextToken ==
    /\ UNCHANGED lock
    /\ LET r == get_next_token(tokens, failed_tokens, current_index, now)
       IN  /\ tokens' = r.tokens
           /\ current_index' = r.current_index
           /\ ret' = [op |-> "get_next_token", arg |-> None,
                      res |-> IF r.tok = None THEN None ELSE tokens[r.tok].refresh_token]
           /\ UNCHANGED <<last_used_index, failed_tokens, now, req>>

GetNextTokenExcludingOneCursor(exclude_token) ==
    /\ UNCHANGED lock
    /\ LET r == get_next_token_excluding(tokens, failed_tokens, current_index,
                                         exclude_token, now)
       IN  /\ tokens' = r.tokens
           /\ current_index' = r.last_used_index
           /\ ret' = [op |-> "get_next_token_excluding", arg |-> exclude_token,
                      res |-> IF r.tok = None THEN None ELSE tokens[r.tok].refresh_token]
           /\ UNCHANGED <<last_used_index, failed_tokens, now, req>>

GetNextTokenExcluding(exclude_token) ==
    /\ UNCHANGED lock
    /\ LET r == get_next_token_excluding(tokens, failed_tokens, last_used_index,
                                         exclude_token, now)
       IN  /\ tokens' = r.tokens
           /\ last_used_index' = r.last_used_index
           /\ ret' = [op |-> "get_next_token_excluding", arg |-> exclude_token,
                      res |-> IF r.tok = None THEN None ELSE tokens[r.tok].refresh_token]
           /\ UNCHANGED <<current_index, failed_tokens, now, req>>

MarkTokenFailed(i) ==
    /\ UNCHANGED lock
    /\ tokens[i].failure_count < MaxFailureCount
    /\ LET r == mark_token_failed(tokens, failed_tokens, i)
       IN  /\ tokens' = r.tokens
           /\ failed_tokens' = r.failed_tokens
    /\ ret' = NoCall
    /\ UNCHANGED <<current_index, last_used_index, now, req>>

\* mark_token_success with its default arguments (jwt = "", jwt_expiry = 0.0)
MarkTokenSuccess(i) ==
    /\ UNCHANGED lock
    /\ LET r == mark_token_success(tokens, failed_tokens, i, NoJwt, 0)
       IN  /\ tokens' = r.tokens
           /\ failed_tokens' = r.failed_tokens
    /\ ret' = NoCall
    /\ UNCHANGED <<current_index, last_used_index, now, req>>

RecoverFailedTokens ==
    /\ UNCHANGED lock
    /\ LET r == recover_failed_tokens(tokens, failed_tokens)
       IN  /\ tokens' = r.tokens
           /\ failed_tokens' = r.failed_tokens
    /\ ret' = NoCall
    /\ UNCHANGED <<current_index, last_used_index, now, req>>

Tick ==
    /\ UNCHANGED lock
    /\ now < TickSize * (1 + MaxTicks)
    /\ now' = now + TickSize
    /\ ret' = NoCall
    /\ UNCHANGED <<tokens, current_index, last_used_index, failed_tokens, req>>

Next ==
    \/ (\E t \in TokenIds, p \in TokenPriority : AddToken(t, p)) /\ UNCHANGED <<hist, sse>>
    \/ GetNextToken /\ UNCHANGED <<hist, sse>>
    \/ (\E t \in {None} \cup {tokens[i].refresh_token : i \in 1..Len(tokens)} :
           GetNextTokenExcluding(t)) /\ UNCHANGED <<hist, sse>>
    \/ (\E i \in 1..Len(tokens) : MarkTokenFailed(i)) /\ UNCHANGED <<hist, sse>>
    \/ (\E i \in 1..Len(tokens) : MarkTokenSuccess(i)) /\ UNCHANGED <<hist, sse>>
    \/ RecoverFailedTokens /\ UNCHANGED <<hist, sse>>

Spec == Init /\ [][Next]_vars

(* ------------------- round robin: the observed returns ------------------ *)
SelectableSet(toks, failed) ==
    {toks[i].refresh_token : i \in {j \in 1..Len(toks) : Selectable(toks, failed, j)}}

\* the selectable records of the first class that has any
TopClass(toks, failed) ==
    LET ps == {toks[i].priority : i \in {j \in 1..Len(toks) : Selectable(toks, failed, j)}}
    IN  IF ps = {} THEN {}
        ELSE LET p == CHOOSE x \in ps : \A y \in ps : x <= y
             IN  {toks[i].refresh_token :
                    i \in {j \in 1..Len(toks) :
                             toks[j].priority = p /\ Selectable(toks, failed, j)}}

LastK(seq, k) ==
    IF Len(seq) <= k THEN seq ELSE SubSeq(seq, Len(seq) - k + 1, Len(seq))

\* hist holds the results of the latest get_next_token calls made while the
\* selectable set stayed the same, at most as many as the first class has records
Observe ==
    hist' = IF SelectableSet(tokens', failed_tokens') # SelectableSet(tokens, failed_tokens)
            THEN <<>>
            ELSE IF ret'.op = "get_next_token" /\ ret'.res # None
            THEN LastK(Append(hist, ret'.res),
                       Cardinality(TopClass(tokens', failed_tokens')))
            ELSE hist

NextRR ==
    \/ (\E t \in TokenIds, p \in TokenPriority : AddToken(t, p)) /\ Observe /\ UNCHANGED sse
    \/ GetNextToken /\ Observe /\ UNCHANGED sse
    \/ (\E t \in {None} \cup {tokens[i].refresh_token : i \in 1..Len(tokens)} :
           GetNextTokenExcluding(t)) /\ Observe /\ UNCHANGED sse
    \/ (\E i \in 1..Len(tokens) : MarkTokenFailed(i)) /\ Observe /\ UNCHANGED sse
    \/ RecoverFailedTokens /\ Observe /\ UNCHANGED sse

SpecRR == Init /\ [][NextRR]_vars

(* --------------- failure accounting: the observed calls ----------------- *)
\* hist holds the call made by the last step, when that was mark_token_success
\* or recover_failed_tokens, and what it returned
Called(op, arg, res) == hist' = <<[op |-> op, arg |-> arg, res |-> res]>>
Uncalled == hist' = <<>>
LastCall == IF hist = <<>> THEN NoCall ELSE hist[Len(hist)]

NextAcct ==
    \/ (\E t \in TokenIds, p \in TokenPriority : AddToken(t, p)) /\ Uncalled /\ UNCHANGED sse
    \/ GetNextToken /\ Uncalled /\ UNCHANGED sse
    \/ (\E i \in 1..Len(tokens) : MarkTokenFailed(i)) /\ Uncalled /\ UNCHANGED sse
    \/ (\E i \in 1..Len(tokens) :
           /\ MarkTokenSuccess(i)
           /\ Called("mark_token_success", tokens[i].refresh_token, None)
           /\ UNCHANGED sse)
    \/ /\ RecoverFailedTokens
       /\ Called("recover_failed_tokens", None,
                 recover_failed_tokens(tokens, failed_tokens).recovered)
       /\ UNCHANGED sse

SpecAcct == Init /\ [][NextAcct]_vars

(* --------------------- add_token among the store calls ------------------ *)
\* hist holds the call made by the last step when that was add_token, with the
\* priority it was given
NextAdd ==
    \/ (\E t \in TokenIds, p \in TokenPriority :
           AddToken(t, p) /\ Called("add_token", t, p) /\ UNCHANGED sse)
    \/ GetNextToken /\ Uncalled /\ UNCHANGED sse
    \/ (\E t \in {None} \cup {tokens[i].refresh_token : i \in 1..Len(tokens)} :
           GetNextTokenExcluding(t)) /\ Uncalled /\ UNCHANGED sse
    \/ (\E i \in 1..Len(tokens) : MarkTokenFailed(i)) /\ Uncalled /\ UNCHANGED sse

SpecAdd == Init /\ [][NextAdd]_vars

(* ------------------- the record a selector returned last --------------- *)
\* hist holds the record returned by the latest selector call that returned one
ObserveReturned ==
    hist' = IF ret'.op \in {"get_next_token", "get_next_token_excluding"}
               /\ ret'.res # None
            THEN <<ret'.res>>
            ELSE hist

NextLast ==
    \/ (\E t \in TokenIds, p \in TokenPriority : AddToken(t, p)) /\ ObserveReturned /\ UNCHANGED sse
    \/ GetNextToken /\ ObserveReturned /\ UNCHANGED sse
    \/ (\E t \in {None} \cup {tokens[i].refresh_token : i \in 1..Len(tokens)} :
           GetNextTokenExcluding(t)) /\ ObserveReturned /\ UNCHANGED sse
    \/ (\E i \in 1..Len(tokens) : MarkTokenFailed(i)) /\ ObserveReturned /\ UNCHANGED sse
    \/ Tick /\ UNCHANGED <<hist, sse>>

SpecLast == Init /\ [][NextLast]_vars

(* ------------------------- credential exchanger ------------------------ *)
\* what the identity service answers for expires_in: a credential minted at
\* time t has more than the margin left at t and exactly the margin one tick
\* later
ExpiresInChoices == {JwtMargin + TickSize}

\* refresh_jwt_token_with_token_info, success: the credential and its expiry
\* are written back on the record with mark_token_success
refresh_ok(toks, failed, i, t, expires_in) ==
    mark_token_success(toks, failed, i, Jwt(toks[i].refresh_token), t + expires_in)

\* refresh_jwt_token_with_token_info, failure: attributable to the identity
refresh_failed(toks, failed, i) ==
    mark_token_failed(toks, failed, i)

\* acquire_anonymous_access_token, success: the new refresh token joins the
\* store as ANONYMOUS and its credential is cached on the new record
acquire_ok(toks, failed, new_token, t, expires_in) ==
    LET added == AddTokenInternal(toks, new_token, ANONYMOUS)
    IN  mark_token_success(added, failed, IndexOf(added, new_token),
                           Jwt(new_token), t + expires_in)

CachedJwtValidAtMargin(tok, t) ==
    tok.last_jwt # NoJwt /\ tok.last_jwt_expiry >= t + JwtMargin

\* the test of the cached credential at api_client.py:99
CachedJwtValid(tok, t) ==
    tok.last_jwt # NoJwt /\ tok.last_jwt_expiry > t + JwtMargin

QuotaStatus == 429
ServiceUnavailableStatus == 500 + 3
ServerErrorStatus == 500
\* upstream answers: status and whether the body holds "No remaining quota" or
\* "No AI requests remaining"
Responses ==
    { [status |-> 200, quota |-> FALSE],
      [status |-> QuotaStatus, quota |-> TRUE],
      [status |-> QuotaStatus, quota |-> FALSE],
      [status |-> ServerErrorStatus, quota |-> FALSE],
      [status |-> 503, quota |-> FALSE],
      [status |-> 401, quota |-> FALSE] }

\* number of iterations of "for attempt in range(2)"
MaxAttempts == 2

UsedOf(toks, jwt) == IF jwt \in StoreIds THEN IndexOf(toks, jwt) ELSE None
FcOf(toks, i) == IF i = None THEN 0 ELSE toks[i].failure_count

\* "return ...": the value to return is fixed; the statement leaves the block
\* of "async with httpx.AsyncClient(...) as client" (88 / 390), whose exit
\* awaits the close of the client before the caller gets the value
Finish(q, outcome, status) ==
    [q EXCEPT !.pc = "client_close", !.outcome = outcome, !.status = status]

\* api_client.py:121-132 (423-434): the driver reaches client.stream("POST", ...)
\* with the credential q.jwt and is suspended until the answer arrives; the
\* record whose credential goes out, and its failure_count now, are noted
OpenPost(q, toks) ==
    LET u == UsedOf(toks, q.jwt)
    IN  [q EXCEPT !.pc = "post",
                  !.posts = q.posts + 1,
                  !.used = u,
                  !.fc_sent = FcOf(toks, u),
                  !.first_jwt = IF q.posts = 0 THEN q.jwt ELSE q.first_jwt]

\* "jwt = await get_valid_jwt()" (113, 118 / 415, 420): the driver waits for
\* the credential of the configuration
AwaitValidJwt(q) == [q EXCEPT !.pc = "get_valid_jwt"]

ContinueUncounted(q, toks) == OpenPost(q, toks)

\* "continue": the next iteration of the loop opens the next POST; the end of
\* the function when the loop is exhausted
Continue(q, toks) ==
    IF q.attempt + 1 < MaxAttempts
    THEN OpenPost([q EXCEPT !.attempt = q.attempt + 1], toks)
    ELSE [q EXCEPT !.pc = "client_close", !.outcome = "fail"]

(* ---------------------------- retry controller ------------------------- *)
KeepFirstJwt(q, refresh_token, jwt) ==
    [q EXCEPT !.current_token_refresh = refresh_token, !.alt_ok = TRUE]

\* api_client.py:192-193 and 201-202: the alternate record's credential becomes
\* the credential of the next POST
UseAlternate(q, refresh_token, jwt) ==
    [q EXCEPT !.jwt = jwt, !.current_token_refresh = refresh_token, !.alt_ok = TRUE]

\* api_client.py:95-119: get_next_token, then the cached credential or a refresh
Start(r) ==
    /\ UNCHANGED lock
    /\ req[r].pc = "idle"
    /\ LET g == get_next_token(tokens, failed_tokens, current_index, now)
           q == IF g.tok = None THEN req[r]
                ELSE [req[r] EXCEPT
                         !.sel = tokens[g.tok].refresh_token,
                         !.sel_has_jwt = tokens[g.tok].last_jwt # NoJwt,
                         !.sel_remaining = tokens[g.tok].last_jwt_expiry - now,
                         !.mutated = @ \cup {tokens[g.tok].refresh_token}]
       IN  /\ tokens' = g.tokens
           /\ current_index' = g.current_index
           /\ ret' = [op |-> "get_next_token", arg |-> None,
                      res |-> IF g.tok = None THEN None
                              ELSE tokens[g.tok].refresh_token]
           /\ req' = [req EXCEPT ![r] =
                  IF g.tok = None
                  THEN AwaitValidJwt(q)
                  ELSE IF CachedJwtValid(tokens[g.tok], now)
                  THEN OpenPost([q EXCEPT !.jwt = tokens[g.tok].last_jwt,
                                          !.token_info = g.tok,
                                          !.current_token_refresh =
                                              tokens[g.tok].refresh_token],
                                g.tokens)
                  ELSE [q EXCEPT !.pc = "refresh_initial", !.token_info = g.tok,
                                 !.initial_refresh = TRUE]]
    /\ UNCHANGED <<last_used_index, failed_tokens, now>>

\* api_client.py:107-115: the refresh of the chosen record returns
RefreshInitial(r, ok, expires_in) ==
    /\ UNCHANGED lock
    /\ req[r].pc = "refresh_initial"
    /\ LET q == req[r]
           i == q.token_info
           m == IF ok THEN refresh_ok(tokens, failed_tokens, i, now, expires_in)
                ELSE refresh_failed(tokens, failed_tokens, i)
       IN  /\ tokens' = m.tokens
           /\ failed_tokens' = m.failed_tokens
           /\ req' = [req EXCEPT ![r] =
                  LET q1 == [q EXCEPT
                                !.mutated = @ \cup {tokens[i].refresh_token},
                                !.marked = IF ok THEN @ \cup {tokens[i].refresh_token}
                                           ELSE @]
                  IN  IF ok
                      THEN OpenPost([q1 EXCEPT
                                        !.jwt = Jwt(tokens[i].refresh_token),
                                        !.current_token_refresh =
                                            tokens[i].refresh_token],
                                    m.tokens)
                      ELSE AwaitValidJwt(q1)]
    /\ ret' = NoCall
    /\ UNCHANGED <<current_index, last_used_index, now>>

\* api_client.py:113-115, 118 (415-417, 420): get_valid_jwt returns the
\* credential of the configuration; after a failed refresh (113) the refresh
\* token of the record chosen is noted now (115), with an empty pool (118)
\* none is; the first POST is opened
GetValidJwt(r) ==
    /\ UNCHANGED lock
    /\ req[r].pc = "get_valid_jwt"
    /\ req' = [req EXCEPT ![r] =
           OpenPost([req[r] EXCEPT
                        !.jwt = EnvJwt,
                        !.current_token_refresh =
                            IF req[r].token_info = None THEN None
                            ELSE tokens[req[r].token_info].refresh_token],
                    tokens)]
    /\ ret' = NoCall
    /\ UNCHANGED <<pool, now>>

ExcludeNoToken(q, toks) == None

\* api_client.py:157-166 and 219-224: the token to exclude
ExcludeToken(q, toks) ==
    IF q.current_token_refresh = None
    THEN LET last_used == get_last_used_token(toks)
         IN  IF last_used # None THEN toks[last_used].refresh_token ELSE None
    ELSE q.current_token_refresh

\* api_client.py:145-211 (469-520): 429 with a quota message on the first attempt
RotateOnQuota(r, q) ==
    LET ex == ExcludeToken(q, tokens)
        g == get_next_token_excluding(tokens, failed_tokens, last_used_index, ex, now)
        rt == IF g.tok = None THEN None ELSE tokens[g.tok].refresh_token
        q1 == [q EXCEPT !.current_token_refresh = ex, !.rotated = TRUE,
                        !.excl_arg = ex, !.alt = rt,
                        !.mutated = IF rt = None THEN @ ELSE @ \cup {rt}]
    IN  /\ UNCHANGED lock
        /\ tokens' = g.tokens
        /\ last_used_index' = g.last_used_index
        /\ ret' = [op |-> "get_next_token_excluding", arg |-> ex, res |-> rt]
        /\ req' = [req EXCEPT ![r] =
               IF g.tok = None
               THEN [q1 EXCEPT !.pc = "provision", !.provisions = q.provisions + 1]
               ELSE IF tokens[g.tok].last_jwt # NoJwt
               THEN Continue(UseAlternate(
                        [q1 EXCEPT !.alt_cache_hit = TRUE,
                                   !.alt_remaining = tokens[g.tok].last_jwt_expiry - now],
                        rt, tokens[g.tok].last_jwt), g.tokens)
               ELSE [q1 EXCEPT !.pc = "refresh_quota", !.token_info = g.tok,
                               !.alt_refresh = TRUE]]
        /\ UNCHANGED <<current_index, failed_tokens, now>>

ServerErrorAsQuota(r, q) == RotateOnQuota(r, q)

\* api_client.py:213-243 (522-552): 500 on the first attempt
RotateOnServerError(r, q) ==
    LET ex == ExcludeToken(q, tokens)
        g == get_next_token_excluding(tokens, failed_tokens, last_used_index, ex, now)
        rt == IF g.tok = None THEN None ELSE tokens[g.tok].refresh_token
        q1 == [q EXCEPT !.current_token_refresh = ex, !.rotated = TRUE,
                        !.excl_arg = ex, !.alt = rt,
                        !.mutated = IF rt = None THEN @ ELSE @ \cup {rt}]
    IN  /\ UNCHANGED lock
        /\ tokens' = g.tokens
        /\ last_used_index' = g.last_used_index
        /\ ret' = [op |-> "get_next_token_excluding", arg |-> ex, res |-> rt]
        /\ req' = [req EXCEPT ![r] =
               IF g.tok = None
               THEN Finish(q1, "fail", q1.first_status)
               ELSE [q1 EXCEPT !.pc = "refresh_server", !.token_info = g.tok,
                               !.current_token_refresh = rt,
                               !.alt_refresh = TRUE]]
        /\ UNCHANGED <<current_index, failed_tokens, now>>

\* api_client.py:132-134 (434-436): client.stream("POST", ...) returns the
\* response, status and headers read and the body still to come: after a 200
\* the driver reads the event lines, after any other status it awaits the
\* body, "await response.aread()", with the response open
Upstream(r, resp) ==
    /\ UNCHANGED lock
    /\ req[r].pc = "post"
    /\ LET q == req[r]
       IN  req' = [req EXCEPT ![r] =
               IF resp.status = 200
               THEN [q EXCEPT !.pc = "stream",
                              !.first_status = IF q.posts = 1 THEN 200 ELSE @]
               ELSE [q EXCEPT !.pc = "aread", !.response = resp]]
    /\ ret' = NoCall
    /\ UNCHANGED <<pool, now>>

\* api_client.py:134-243 (436-552): "await response.aread()" returns the body
\* of an answer other than 200, which closes the response, and the answer is
\* classified
Aread(r) ==
    /\ req[r].pc = "aread"
    /\ LET resp == req[r].response
           q == [req[r] EXCEPT !.first_status = IF req[r].posts = 1 THEN resp.status
                                                ELSE @,
                               !.first_quota = IF req[r].posts = 1 THEN resp.quota
                                               ELSE @,
                               !.response = NoResponse]
       IN  IF resp.status = QuotaStatus /\ q.attempt = 0 /\ resp.quota
           THEN RotateOnQuota(r, q)
           ELSE IF resp.status = ServerErrorStatus /\ q.attempt = 0
           THEN RotateOnServerError(r, q)
           ELSE /\ req' = [req EXCEPT ![r] = Finish(q, "fail", resp.status)]
                /\ ret' = NoCall
                /\ UNCHANGED <<pool, now, lock>>

\* api_client.py:270-352 (579-658): the event lines are read to the end of the
\* answer or to the end marker, and the driver reaches its return statement.
\* After "break" at the end marker the response is still open, and the exit
\* of "async with client.stream(...) as response" (132 / 434) awaits its
\* close; a response read to its end is closed already
StreamEnd(r, done_marker) ==
    /\ UNCHANGED lock
    /\ req[r].pc = "stream"
    /\ req' = [req EXCEPT ![r] =
           IF done_marker THEN [Finish(req[r], "ok", 200) EXCEPT !.pc = "aclose"]
           ELSE Finish(req[r], "ok", 200)]
    /\ ret' = NoCall
    /\ UNCHANGED <<pool, now>>

\* api_client.py:132 (434): the exit of "async with client.stream(...)": the
\* close of the open response is over, the exit of the client's block follows
StreamExit(r) ==
    /\ UNCHANGED lock
    /\ req[r].pc = "aclose"
    /\ req' = [req EXCEPT ![r].pc = "client_close"]
    /\ ret' = NoCall
    /\ UNCHANGED <<pool, now>>

\* api_client.py:88 (390): the exit of "async with httpx.AsyncClient(...)": the
\* close of the client is over and the call is left, with the value of the
\* return statement, with the exception "except Exception" raised again
\* (353-365 / 659-671), or with the CancelledError of a cancelled call
ClientExit(r) ==
    /\ UNCHANGED lock
    /\ req[r].pc = "client_close"
    /\ req' = [req EXCEPT ![r] =
           IF req[r].cancelled THEN [req[r] EXCEPT !.pc = "cancelled"]
           ELSE IF req[r].outcome = "error" THEN [req[r] EXCEPT !.pc = "raised"]
           ELSE [req[r] EXCEPT !.pc = "done",
                               !.fc_end = FcOf(tokens, req[r].used)]]
    /\ ret' = NoCall
    /\ UNCHANGED <<pool, now>>

\* api_client.py:195-204 (497-513): the refresh of the alternate record returns
RefreshQuota(r, ok, expires_in) ==
    /\ UNCHANGED lock
    /\ req[r].pc = "refresh_quota"
    /\ LET i == req[r].token_info
           q == [req[r] EXCEPT
                    !.mutated = @ \cup {tokens[i].refresh_token},
                    !.marked = IF ok THEN @ \cup {tokens[i].refresh_token} ELSE @]
           m == IF ok THEN refresh_ok(tokens, failed_tokens, i, now, expires_in)
                ELSE refresh_failed(tokens, failed_tokens, i)
       IN  /\ tokens' = m.tokens
           /\ failed_tokens' = m.failed_tokens
           /\ req' = [req EXCEPT ![r] =
                  IF ok
                  THEN Continue(UseAlternate(q, tokens[i].refresh_token,
                                             Jwt(tokens[i].refresh_token)), m.tokens)
                  ELSE IF Driver(r) = "parsed"
                  THEN [q EXCEPT !.pc = "provision_fallback",
                                 !.provisions = q.provisions + 1]
                  ELSE Finish(q, "fail", q.first_status)]
    /\ ret' = NoCall
    /\ UNCHANGED <<current_index, last_used_index, now>>

\* api_client.py:232-237 (541-546): the refresh of the record chosen after a 500
RefreshServer(r, ok, expires_in) ==
    /\ UNCHANGED lock
    /\ req[r].pc = "refresh_server"
    /\ LET i == req[r].token_info
           q == [req[r] EXCEPT
                    !.mutated = @ \cup {tokens[i].refresh_token},
                    !.marked = IF ok THEN @ \cup {tokens[i].refresh_token} ELSE @]
           m == IF ok THEN refresh_ok(tokens, failed_tokens, i, now, expires_in)
                ELSE refresh_failed(tokens, failed_tokens, i)
       IN  /\ tokens' = m.tokens
           /\ failed_tokens' = m.failed_tokens
           /\ req' = [req EXCEPT ![r] =
                  IF ok
                  THEN Continue([q EXCEPT !.jwt = Jwt(tokens[i].refresh_token)],
                                m.tokens)
                  ELSE Finish(q, "fail", q.first_status)]
    /\ ret' = NoCall
    /\ UNCHANGED <<current_index, last_used_index, now>>

ProvisionFailedRetries(q, toks) == Continue(q, toks)

\* api_client.py:182-187 (484-489): no credential came back, or the call raised
\* and the handler logged it: the first answer is returned as the failure
ProvisionFailed(q, toks) == Finish(q, "fail", q.first_status)

\* api_client.py:176-187 (478-489, 510-513): acquire_anonymous_access_token returns
Provision(r, ok, expires_in) ==
    /\ req[r].pc \in {"provision", "provision_fallback"}
    /\ LET q == req[r]
           new_token == Len(tokens) + 1
       IN  IF ok
           THEN /\ UNCHANGED lock
                /\ LET m == acquire_ok(tokens, failed_tokens, new_token, now, expires_in)
                   IN  /\ tokens' = m.tokens
                       /\ failed_tokens' = m.failed_tokens
                /\ req' = [req EXCEPT ![r] =
                       Continue([q EXCEPT !.jwt = Jwt(new_token),
                                          !.current_token_refresh =
                                              IF q.pc = "provision" THEN None
                                              ELSE q.current_token_refresh,
                                          !.mutated = @ \cup {new_token},
                                          !.marked = @ \cup {new_token}],
                                acquire_ok(tokens, failed_tokens, new_token, now,
                                           expires_in).tokens)]
           ELSE /\ req' = [req EXCEPT ![r] = ProvisionFailed(q, tokens)]
                /\ UNCHANGED <<tokens, failed_tokens, lock>>
    /\ ret' = NoCall
    /\ UNCHANGED <<current_index, last_used_index, now>>

NextReq ==
    \/ (\E r \in Requests : Start(r)) /\ UNCHANGED <<hist, sse>>
    \/ (\E r \in Requests, ok \in BOOLEAN, e \in ExpiresInChoices :
           RefreshInitial(r, ok, e)) /\ UNCHANGED <<hist, sse>>
    \/ (\E r \in Requests, resp \in Responses : Upstream(r, resp)) /\ UNCHANGED <<hist, sse>>
    \/ (\E r \in Requests : Aread(r)) /\ UNCHANGED <<hist, sse>>
    \/ (\E r \in Requests : GetValidJwt(r)) /\ UNCHANGED <<hist, sse>>
    \/ (\E r \in Requests, done_marker \in BOOLEAN :
           StreamEnd(r, done_marker)) /\ UNCHANGED <<hist, sse>>
    \/ (\E r \in Requests : StreamExit(r)) /\ UNCHANGED <<hist, sse>>
    \/ (\E r \in Requests : ClientExit(r)) /\ UNCHANGED <<hist, sse>>
    \/ (\E r \in Requests, ok \in BOOLEAN, e \in ExpiresInChoices :
           RefreshQuota(r, ok, e)) /\ UNCHANGED <<hist, sse>>
    \/ (\E r \in Requests, ok \in BOOLEAN, e \in ExpiresInChoices :
           RefreshServer(r, ok, e)) /\ UNCHANGED <<hist, sse>>
    \/ (\E r \in Requests, ok \in BOOLEAN, e \in ExpiresInChoices :
           Provision(r, ok, e)) /\ UNCHANGED <<hist, sse>>
    \/ Tick /\ UNCHANGED <<hist, sse>>

SpecReq == Init /\ [][NextReq]_vars

(* ------------- one request among the store calls of the others ---------- *)
\* one call of either driver runs while other callers select records
\* (get_next_token) and count failures (mark_token_failed) on the same store
OnlyRequest(r) == \A o \in Requests \ {r} : req[o].pc = "idle"

\* the awaits of a request: refresh, the credential of the configuration,
\* the upstream POST, the read of the body of an answer other than 200, the
\* read of the event lines, provisioning, and the exits of the two "async
\* with" blocks (the close of an open response, the close of the client)
AwaitPoints ==
    {"refresh_initial", "get_valid_jwt", "post", "aread", "stream", "refresh_quota",
     "refresh_server", "provision", "provision_fallback", "aclose", "client_close"}

\* the awaits inside "async with client.stream(...) as response" (132 / 434)
\* at which the response is open: its body (134 / 436) or its event lines
\* (270 / 579) are being read
ResponseOpen == {"aread", "stream"}

CancelSwallowed(q) == [q EXCEPT !.cancelled = TRUE]

\* CancelledError raised at the await: no handler of the drivers catches it
\* (all are "except Exception"); it leaves the "async with" blocks the call is
\* in, whose exits close the response when one is open (its body or its event
\* lines were being read) and the client; raised at the close of the client,
\* it leaves the call
Cancelled(q) ==
    [q EXCEPT !.cancelled = TRUE,
              !.pc = IF q.pc = "client_close" THEN "cancelled"
                     ELSE IF q.pc \in ResponseOpen THEN "aclose"
                     ELSE "client_close"]

\* the caller cancels request r while it is suspended
Cancel(r) ==
    /\ UNCHANGED lock
    /\ req[r].pc \in AwaitPoints
    /\ ~req[r].cancelled
    /\ req' = [req EXCEPT ![r] = Cancelled(req[r])]
    /\ ret' = NoCall
    /\ UNCHANGED <<pool, now>>

NextMix ==
    \/ (\E r \in Requests : Cancel(r)) /\ UNCHANGED <<hist, sse>>
    \/ (\E r \in Requests : OnlyRequest(r) /\ Start(r)) /\ UNCHANGED <<hist, sse>>
    \/ (\E r \in Requests, ok \in BOOLEAN, e \in ExpiresInChoices :
           RefreshInitial(r, ok, e)) /\ UNCHANGED <<hist, sse>>
    \/ (\E r \in Requests, resp \in Responses : Upstream(r, resp)) /\ UNCHANGED <<hist, sse>>
    \/ (\E r \in Requests : Aread(r)) /\ UNCHANGED <<hist, sse>>
    \/ (\E r \in Requests : GetValidJwt(r)) /\ UNCHANGED <<hist, sse>>
    \/ (\E r \in Requests, done_marker \in BOOLEAN :
           StreamEnd(r, done_marker)) /\ UNCHANGED <<hist, sse>>
    \/ (\E r \in Requests : StreamExit(r)) /\ UNCHANGED <<hist, sse>>
    \/ (\E r \in Requests : ClientExit(r)) /\ UNCHANGED <<hist, sse>>
    \/ (\E r \in Requests, ok \in BOOLEAN, e \in ExpiresInChoices :
           RefreshQuota(r, ok, e)) /\ UNCHANGED <<hist, sse>>
    \/ (\E r \in Requests, ok \in BOOLEAN, e \in ExpiresInChoices :
           RefreshServer(r, ok, e)) /\ UNCHANGED <<hist, sse>>
    \/ (\E r \in Requests, ok \in BOOLEAN, e \in ExpiresInChoices :
           Provision(r, ok, e)) /\ UNCHANGED <<hist, sse>>
    \/ GetNextToken /\ UNCHANGED <<hist, sse>>
    \/ (\E i \in 1..Len(tokens) : MarkTokenFailed(i)) /\ UNCHANGED <<hist, sse>>

SpecMix == Init /\ [][NextMix]_vars

(* -------------------- network errors of the upstream call --------------- *)
RaisedRetried(q) ==
    IF q.attempt + 1 < MaxAttempts
    THEN [q EXCEPT !.attempt = q.attempt + 1, !.posts = q.posts + 1, !.pc = "post"]
    ELSE [q EXCEPT !.pc = "client_close", !.outcome = "fail"]

\* api_client.py:353-365 (659-671): the exception of the POST or of the read of
\* the answer leaves the "async with" blocks (the response is open when its
\* body or its event lines were being read), then reaches "except Exception",
\* is logged and raised again
Raised(q) ==
    [q EXCEPT !.pc = IF q.pc \in ResponseOpen THEN "aclose" ELSE "client_close",
              !.outcome = "error"]

\* api_client.py:132 (434): client.stream("POST", ...), or the read of the
\* body or of the event lines, raises a network error or a timeout
NetworkError(r) ==
    /\ UNCHANGED lock
    /\ req[r].pc \in {"post", "aread", "stream"}
    /\ req' = [req EXCEPT ![r] = Raised(req[r])]
    /\ ret' = NoCall
    /\ UNCHANGED <<pool, now>>

\* one call of either driver, whose upstream call may raise, while other
\* callers count failures on the same store
NextNet ==
    \/ (\E r \in Requests : NetworkError(r)) /\ UNCHANGED <<hist, sse>>
    \/ (\E r \in Requests : OnlyRequest(r) /\ Start(r)) /\ UNCHANGED <<hist, sse>>
    \/ (\E r \in Requests, ok \in BOOLEAN, e \in ExpiresInChoices :
           RefreshInitial(r, ok, e)) /\ UNCHANGED <<hist, sse>>
    \/ (\E r \in Requests, resp \in Responses : Upstream(r, resp)) /\ UNCHANGED <<hist, sse>>
    \/ (\E r \in Requests : Aread(r)) /\ UNCHANGED <<hist, sse>>
    \/ (\E r \in Requests : GetValidJwt(r)) /\ UNCHANGED <<hist, sse>>
    \/ (\E r \in Requests, done_marker \in BOOLEAN :
           StreamEnd(r, done_marker)) /\ UNCHANGED <<hist, sse>>
    \/ (\E r \in Requests : StreamExit(r)) /\ UNCHANGED <<hist, sse>>
    \/ (\E r \in Requests : ClientExit(r)) /\ UNCHANGED <<hist, sse>>
    \/ (\E r \in Requests, ok \in BOOLEAN, e \in ExpiresInChoices :
           RefreshQuota(r, ok, e)) /\ UNCHANGED <<hist, sse>>
    \/ (\E r \in Requests, ok \in BOOLEAN, e \in ExpiresInChoices :
           RefreshServer(r, ok, e)) /\ UNCHANGED <<hist, sse>>
    \/ (\E r \in Requests, ok \in BOOLEAN, e \in ExpiresInChoices :
           Provision(r, ok, e)) /\ UNCHANGED <<hist, sse>>
    \/ (\E i \in 1..Len(tokens) : MarkTokenFailed(i)) /\ UNCHANGED <<hist, sse>>

SpecNet == Init /\ [][NextNet]_vars

(* ======================================================================= *)
(*                 The SSE loop of the two drivers (status 200)            *)
(* ======================================================================= *)
\* Text is a sequence of one-character strings, a byte string a sequence of
\* integers 0..255.
MaxLines == 6
MaxPayloadBytes == 3
\* the bytes of the payloads whose two framings are decoded
PayloadBytes == {0, 29, 105, 183, 255}

Drivers == {"plain", "parsed"}

HexDigits == <<"0", "1", "2", "3", "4", "5", "6", "7", "8", "9", "a", "b", "c", "d", "e", "f">>
StandardAlphabet ==
    <<"A", "B", "C", "D", "E", "F", "G", "H", "I", "J", "K", "L", "M", "N", "O", "P",
      "Q", "R", "S", "T", "U", "V", "W", "X", "Y", "Z", "a", "b", "c", "d", "e", "f",
      "g", "h", "i", "j", "k", "l", "m", "n", "o", "p", "q", "r", "s", "t", "u", "v",
      "w", "x", "y", "z", "0", "1", "2", "3", "4", "5", "6", "7", "8", "9", "+", "/">>
\* the characters that \s and str.strip() remove (those of str.isspace):
\* space, tab, line feed, carriage return, form feed, then vertical tab
\* (U+000B), the separators U+001C to U+001F, next line (U+0085) and the
\* no-break space (U+00A0), each written as the character itself.  The
\* spaces above U+00FF (U+1680, U+2000 to U+200A, U+2028, U+2029, U+202F,
\* U+205F, U+3000) are removed as well; a string of this module cannot hold
\* them.
Whitespace ==
    {" ", "\t", "\n", "\r", "\f", "", "", "", "", "", "", " "}

\* the characters above U+007F that a string of this module can hold: str to
\* bytes is done with the ascii codec by both base64 decoders, which raise
\* ValueError on a text that holds one
NonAscii ==
    {"", "", "", "", "", "", "", "", "", "", "", "", "", "", "", "",
     "", "", "", "", "", "", "", "", "", "", "", "", "", "", "", "",
     " ", "¡", "¢", "£", "¤", "¥", "¦", "§", "¨", "©", "ª", "«", "¬", "­", "®", "¯",
     "°", "±", "²", "³", "´", "µ", "¶", "·", "¸", "¹", "º", "»", "¼", "½", "¾", "¿",
     "À", "Á", "Â", "Ã", "Ä", "Å", "Æ", "Ç", "È", "É", "Ê", "Ë", "Ì", "Í", "Î", "Ï",
     "Ð", "Ñ", "Ò", "Ó", "Ô", "Õ", "Ö", "×", "Ø", "Ù", "Ú", "Û", "Ü", "Ý", "Þ", "ß",
     "à", "á", "â", "ã", "ä", "å", "æ", "ç", "è", "é", "ê", "ë", "ì", "í", "î", "ï",
     "ð", "ñ", "ò", "ó", "ô", "õ", "ö", "÷", "ø", "ù", "ú", "û", "ü", "ý", "þ", "ÿ"}

\* the result None of the decoder, and of a dictionary lookup
NoBytes == <<-1>>
NoId == "None"

CharIndex(chars, c) == CHOOSE i \in 1..Len(chars) : chars[i] = c
Contains(chars, c) == \E i \in 1..Len(chars) : chars[i] = c

\* bytes.hex() and base64.urlsafe_b64encode(...).rstrip("=") of the sender
UrlSafeChar(v) == IF v = 62 THEN "-" ELSE IF v = 63 THEN "_" ELSE StandardAlphabet[v + 1]

HexText(bytes) ==
    [i \in 1..(2 * Len(bytes)) |->
        IF i % 2 = 1 THEN HexDigits[(bytes[(i + 1) \div 2] \div 16) + 1]
        ELSE HexDigits[(bytes[i \div 2] % 16) + 1]]

Base64UrlText(bytes) ==
    LET n == Len(bytes)
        at(k) == IF k <= n THEN bytes[k] ELSE 0
        sextet(j) ==
            LET q == (j - 1) \div 4
                r == (j - 1) % 4
            IN  IF r = 0 THEN at(3 * q + 1) \div 4
                ELSE IF r = 1 THEN (at(3 * q + 1) % 4) * 16 + at(3 * q + 2) \div 16
                ELSE IF r = 2 THEN (at(3 * q + 2) % 16) * 4 + at(3 * q + 3) \div 64
                ELSE at(3 * q + 3) % 64
    IN  [j \in 1..((8 * n + 5) \div 6) |-> UrlSafeChar(sextet(j))]

(* ----------------- _parse_payload_bytes, _parse_payload_bytes2 ---------- *)
IsHexChar(c) == Contains(HexDigits, c) \/ c \in {"A", "B", "C", "D", "E", "F"}

HexValue(c) ==
    IF Contains(HexDigits, c) THEN CharIndex(HexDigits, c) - 1
    ELSE CharIndex(<<"A", "B", "C", "D", "E", "F">>, c) + 9

\* re.fullmatch(r"[0-9a-fA-F]+", s)
IsHexText(s) == s # <<>> /\ \A i \in 1..Len(s) : IsHexChar(s[i])

\* bytes.fromhex(s): raises on an odd number of digits
FromHex(s) ==
    IF Len(s) % 2 = 1 THEN NoBytes
    ELSE [k \in 1..(Len(s) \div 2) |-> 16 * HexValue(s[2 * k - 1]) + HexValue(s[2 * k])]

\* binascii.a2b_base64 (not strict) reads s from the left: a character of the
\* alphabet is a data character ("-" and "_" count as 62 and 63 in
\* urlsafe_b64decode only), "=" is padding, every other character is dropped;
\* the reading stops at the "=" that completes a group of four holding two or
\* three data characters, and nothing after it is decoded. v holds the data
\* characters read so far, pads the "=" read since the last of them.
RECURSIVE ReadBase64(_, _, _, _)
ReadBase64(s, urlsafe, v, pads) ==
    IF s = <<>> THEN [v |-> v, padded |-> FALSE]
    ELSE LET c == Head(s)
             quad_pos == Len(v) % 4
         IN  IF c = "="
             THEN IF quad_pos >= 2 /\ quad_pos + pads + 1 >= 4
                  THEN [v |-> v, padded |-> TRUE]
                  ELSE ReadBase64(Tail(s), urlsafe, v, pads + 1)
             ELSE IF Contains(StandardAlphabet, c)
             THEN ReadBase64(Tail(s), urlsafe,
                             Append(v, CharIndex(StandardAlphabet, c) - 1), 0)
             ELSE IF urlsafe /\ c = "-"
             THEN ReadBase64(Tail(s), urlsafe, Append(v, 62), 0)
             ELSE IF urlsafe /\ c = "_"
             THEN ReadBase64(Tail(s), urlsafe, Append(v, 63), 0)
             ELSE ReadBase64(Tail(s), urlsafe, v, pads)

\* the 6-bit values of the characters of s that the decoder takes as data;
\* NoBytes when s holds a character that is not ASCII (the decoder raises
\* before it reads)
Sextets(s, urlsafe) ==
    IF \E i \in 1..Len(s) : s[i] \in NonAscii THEN NoBytes
    ELSE ReadBase64(s, urlsafe, <<>>, 0).v

\* the reading of s stopped at padding that completes the last group
Padded(s, urlsafe) == ReadBase64(s, urlsafe, <<>>, 0).padded

\* the bytes of the data characters v: the decoder raises when the text was
\* not ASCII, and when the last group is incomplete and no padding completed it
Base64Bytes(v, padded) ==
    LET n == Len(v)
    IN  IF v = NoBytes \/ (n % 4 # 0 /\ ~padded)
        THEN NoBytes
        ELSE [k \in 1..((6 * n) \div 8) |->
                LET q == (k - 1) \div 3
                    r == (k - 1) % 3
                IN  IF r = 0 THEN v[4 * q + 1] * 4 + v[4 * q + 2] \div 16
                    ELSE IF r = 1 THEN (v[4 * q + 2] % 16) * 16 + v[4 * q + 3] \div 4
                    ELSE (v[4 * q + 3] % 4) * 64 + v[4 * q + 4]]

\* _parse_payload_bytes(data_str): hex first, then URL-safe base64 of the text
\* with "=" added up to a multiple of four characters, then standard base64 of
\* the same; NoBytes is None
parse_payload_bytes(data_str) ==
    LET s == SelectSeq(data_str, LAMBDA c : c \notin Whitespace)
        pad == [i \in 1..((4 - (Len(s) % 4)) % 4) |-> "="]
        url == Base64Bytes(Sextets(s \o pad, TRUE), Padded(s \o pad, TRUE))
    IN  IF s = <<>> THEN NoBytes
        ELSE IF IsHexText(s) /\ FromHex(s) # NoBytes THEN FromHex(s)
        ELSE IF url # NoBytes THEN url
        ELSE Base64Bytes(Sextets(s \o pad, FALSE), Padded(s \o pad, FALSE))

(* ------------------------- protobuf_to_dict ----------------------------- *)
\* A ResponseEvent tree: init (absent, or conversation_id and task_id, each of
\* which may be missing), client_actions (absent, or a list of actions) and
\* finished.
NoInit == [present |-> FALSE, conversation_id |-> NoId, task_id |-> NoId]
InitOf(conversation_id, task_id) ==
    [present |-> TRUE, conversation_id |-> conversation_id, task_id |-> task_id]
NoActions == [present |-> FALSE, actions |-> <<>>]
ActionsOf(actions) == [present |-> TRUE, actions |-> actions]

AppendToMessageContent(text) ==
    [kind |-> "append_to_message_content", text |-> text,
     task_id |-> NoId, messages |-> <<>>]
AddMessagesToTask(task_id, messages) ==
    [kind |-> "add_messages_to_task", text |-> <<>>,
     task_id |-> task_id, messages |-> messages]
CreateTask ==
    [kind |-> "create_task", text |-> <<>>, task_id |-> NoId, messages |-> <<>>]
AgentOutput(text) == [agent_output |-> TRUE, text |-> text]
UserQuery == [agent_output |-> FALSE, text |-> <<>>]

ResponseEvent(init, client_actions) ==
    [init |-> init, client_actions |-> client_actions, finished |-> FALSE]

EvEmpty == ResponseEvent(NoInit, NoActions)
EvInit == ResponseEvent(InitOf("c-1", "t-1"), NoActions)
EvHel == ResponseEvent(NoInit, ActionsOf(<<AppendToMessageContent(<<"h", "e", "l">>)>>))
EvInitHel ==
    ResponseEvent(InitOf("c-1", "t-1"),
                  ActionsOf(<<AppendToMessageContent(<<"h", "e", "l">>)>>))
EvLo ==
    ResponseEvent(NoInit,
                  ActionsOf(<<CreateTask, AppendToMessageContent(<<"l", "o">>)>>))
EvMessages ==
    ResponseEvent(NoInit,
                  ActionsOf(<<AddMessagesToTask("t-2",
                                <<AgentOutput(<<>>), UserQuery, AgentOutput(<<"!">>)>>)>>))

\* the wire encodings of the events of the model; the encoding of two
\* messages one after the other is the encoding of their merge
WireEvents ==
    << <<<<>>, EvEmpty>>,
       <<<<10>>, EvInit>>,
       <<<<18>>, EvHel>>,
       <<<<10, 18>>, EvInitHel>>,
       <<<<26>>, EvLo>>,
       <<<<34>>, EvMessages>> >>

\* protobuf_to_dict(raw_bytes, "warp.multi_agent.v1.ResponseEvent") returns
Decodable(raw_bytes) == \E k \in 1..Len(WireEvents) : WireEvents[k][1] = raw_bytes

protobuf_to_dict(raw_bytes) ==
    WireEvents[CHOOSE k \in 1..Len(WireEvents) : WireEvents[k][1] = raw_bytes][2]

(* ------------------------------ the SSE loop ---------------------------- *)
\* api_client.py:32-61
ActionType(action) ==
    IF action.kind = "create_task" THEN "CREATE_TASK"
    ELSE IF action.kind = "append_to_message_content" THEN "APPEND_CONTENT"
    ELSE IF action.kind = "add_messages_to_task" THEN "ADD_MESSAGE"
    ELSE IF action.kind = "tool_call" THEN "TOOL_CALL"
    ELSE IF action.kind = "tool_response" THEN "TOOL_RESPONSE"
    ELSE "UNKNOWN_ACTION"

get_event_type(event_data) ==
    IF event_data.init.present THEN <<"INITIALIZATION">>
    ELSE IF event_data.client_actions.present
    THEN IF event_data.client_actions.actions = <<>>
         THEN <<"CLIENT_ACTIONS_EMPTY">>
         ELSE <<"CLIENT_ACTIONS">> \o
              [i \in 1..Len(event_data.client_actions.actions) |->
                  ActionType(event_data.client_actions.actions[i])]
    ELSE IF event_data.finished THEN <<"FINISHED">>
    ELSE <<"UNKNOWN_EVENT">>

\* the locals of a driver that the loop reads and writes; show_all_events is
\* the parameter of send_protobuf_to_warp_api (default True), which the parsed
\* driver does not have; events is all_events, or parsed_events
NewParser ==
    [current_data |-> <<>>, event_count |-> 0, events |-> <<>>,
     complete_response |-> <<>>, conversation_id |-> NoId, task_id |-> NoId,
     pc |-> "reading", text |-> <<>>, show_all_events |-> TRUE]

RECURSIVE LStrip(_)
LStrip(s) == IF s # <<>> /\ Head(s) \in Whitespace THEN LStrip(Tail(s)) ELSE s
RECURSIVE RStrip(_)
RStrip(s) ==
    IF s # <<>> /\ s[Len(s)] \in Whitespace THEN RStrip(SubSeq(s, 1, Len(s) - 1)) ELSE s
\* str.strip()
Strip(s) == RStrip(LStrip(s))

DataPrefix == <<"d", "a", "t", "a", ":">>
DoneMarker == <<"[", "D", "O", "N", "E", "]">>
StartsWithData(line) == Len(line) >= 5 /\ SubSeq(line, 1, 5) = DataPrefix

RECURSIVE Join(_)
\* "".join(complete_response)
Join(fragments) ==
    IF fragments = <<>> THEN <<>> ELSE Head(fragments) \o Join(Tail(fragments))

NoContentWarning == <<"Warning: No response content received">>

RECURSIVE MessageTexts(_)
\* api_client.py:634-640: the non-empty texts of the messages with agent_output
MessageTexts(messages) ==
    IF messages = <<>> THEN <<>>
    ELSE (IF Head(messages).agent_output /\ Head(messages).text # <<>>
          THEN <<Head(messages).text>> ELSE <<>>) \o MessageTexts(Tail(messages))

AppendTextsOnly(action) ==
    IF action.kind = "append_to_message_content" /\ action.text # <<>>
    THEN <<action.text>> ELSE <<>>

\* api_client.py:622-641: the fragments one action adds to complete_response
ActionTexts(action) ==
    IF action.kind = "append_to_message_content"
    THEN IF action.text # <<>> THEN <<action.text>> ELSE <<>>
    ELSE IF action.kind = "add_messages_to_task"
    THEN MessageTexts(action.messages)
    ELSE <<>>

RECURSIVE ApplyActions(_, _)
\* api_client.py:617-641 (312-336): the loop over the actions of an event
ApplyActions(st, actions) ==
    IF actions = <<>> THEN st
    ELSE LET a == Head(actions)
         IN  ApplyActions(
                 [st EXCEPT !.complete_response = @ \o ActionTexts(a),
                            !.task_id = IF a.kind = "add_messages_to_task"
                                           /\ a.task_id # NoId
                                        THEN a.task_id ELSE @],
                 Tail(actions))

\* api_client.py:611-615 (307-311)
ApplyInit(st, event_data) ==
    [st EXCEPT !.conversation_id = IF event_data.init.conversation_id # NoId
                                   THEN event_data.init.conversation_id ELSE @,
               !.task_id = IF event_data.init.task_id # NoId
                           THEN event_data.init.task_id ELSE @]

ClientActions(event_data) ==
    IF event_data.client_actions.present THEN event_data.client_actions.actions
    ELSE <<>>

EmitEventFirst(events, event_count, event_data) ==
    <<[event_number |-> event_count, event_type |-> get_event_type(event_data),
       parsed_data |-> event_data]>> \o events

\* api_client.py:600-601 (302): the event joins the list under its number
EmitEvent(events, event_count, event_data) ==
    Append(events, [event_number |-> event_count,
                    event_type |-> get_event_type(event_data),
                    parsed_data |-> event_data])

\* api_client.py:597-641, send_protobuf_to_warp_api_parsed
HandleEventParsed(st, event_data) ==
    LET counted == [st EXCEPT !.event_count = st.event_count + 1,
                              !.events = EmitEvent(st.events, st.event_count + 1,
                                                   event_data)]
    IN  ApplyActions(IF event_data.init.present THEN ApplyInit(counted, event_data)
                     ELSE counted,
                     ClientActions(event_data))

\* api_client.py:292-336, send_protobuf_to_warp_api: the event joins all_events
\* only if show_all_events, and the actions are read only inside the branch of
\* an event that holds init
HandleEventPlain(st, event_data) ==
    LET counted ==
            [st EXCEPT !.event_count = st.event_count + 1,
                       !.events =
                           IF st.show_all_events
                           THEN Append(@, [event_number |-> st.event_count + 1,
                                           event_type |-> get_event_type(event_data),
                                           raw_data |-> event_data])
                           ELSE @]
    IN  IF event_data.init.present
        THEN ApplyActions(ApplyInit(counted, event_data), ClientActions(event_data))
        ELSE counted

ReturnFlushing(d, st) ==
    LET raw_bytes == parse_payload_bytes(st.current_data)
        flushed ==
            IF st.current_data = <<>> \/ raw_bytes = NoBytes \/ ~Decodable(raw_bytes)
            THEN st
            ELSE IF d = "parsed"
            THEN HandleEventParsed([st EXCEPT !.current_data = <<>>],
                                   protobuf_to_dict(raw_bytes))
            ELSE HandleEventPlain([st EXCEPT !.current_data = <<>>],
                                  protobuf_to_dict(raw_bytes))
        full_response == Join(flushed.complete_response)
    IN  [flushed EXCEPT !.pc = "returned",
                        !.text = IF d = "plain" /\ full_response = <<>>
                                 THEN NoContentWarning ELSE full_response]

\* api_client.py:338-352 and 646-658: what the driver returns after the loop
Return(d, st) ==
    LET full_response == Join(st.complete_response)
    IN  [st EXCEPT !.pc = "returned",
                   !.text = IF d = "plain" /\ full_response = <<>>
                            THEN NoContentWarning ELSE full_response]

\* line[5:].strip()
Payload(line) == Strip(SubSeq(line, 6, Len(line)))

DoneSkipped(d, st, payload) ==
    IF payload = <<>> \/ payload = DoneMarker THEN st
    ELSE [st EXCEPT !.current_data = @ \o payload]

\* api_client.py:581-588 (272-279): a data line is skipped when its payload is
\* empty, ends the loop when it is the end marker, and joins the accumulator
\* otherwise
OnPayload(d, st, payload) ==
    IF payload = <<>> THEN st
    ELSE IF payload = DoneMarker THEN Return(d, st)
    ELSE [st EXCEPT !.current_data = @ \o payload]

SkipKeepsData(st) == st

\* api_client.py:591-600 (282-291): the accumulator is emptied before the
\* decoders are tried, and a frame that fails either of them is passed over
Skip(st) == [st EXCEPT !.current_data = <<>>]

\* why the frame in the accumulator is passed over: "payload" when it is no
\* hex and no base64, "protobuf" when its bytes are no ResponseEvent, "" when
\* it is decoded
FrameFailure(current_data) ==
    LET raw_bytes == parse_payload_bytes(current_data)
    IN  IF raw_bytes = NoBytes THEN "payload"
        ELSE IF ~Decodable(raw_bytes) THEN "protobuf"
        ELSE ""

\* the line ends a frame: it is blank and the accumulator holds data
EndsFrame(st, line) ==
    ~StartsWithData(line) /\ Strip(line) = <<>> /\ st.current_data # <<>>

\* api_client.py:579-644 (270-336): one iteration of "async for line"
ReadLineOf(d, st, line) ==
    IF StartsWithData(line)
    THEN OnPayload(d, st, Payload(line))
    ELSE IF Strip(line) = <<>> /\ st.current_data # <<>>
    THEN LET raw_bytes == parse_payload_bytes(st.current_data)
             flushed == [st EXCEPT !.current_data = <<>>]
         IN  IF raw_bytes = NoBytes THEN Skip(st)
             ELSE IF ~Decodable(raw_bytes) THEN Skip(st)
             ELSE IF d = "parsed"
             THEN HandleEventParsed(flushed, protobuf_to_dict(raw_bytes))
             ELSE HandleEventPlain(flushed, protobuf_to_dict(raw_bytes))
    ELSE st

DataLine(payload) == DataPrefix \o <<" ">> \o payload
\* the same with a tab after the colon and a carriage return at the end
TabbedDataLine(payload) == DataPrefix \o <<"\t">> \o payload \o <<"\r">>

\* the lines the upstream sends: the events framed as hex or as URL-safe
\* base64 without padding, a payload that is no hex and no base64 ("a"), a
\* payload that decodes to bytes that are no event ("ff"), the end marker, the
\* blank line, a line of white space, and a comment line
SseLines ==
    { DataLine(HexText(<<10>>)),
      DataLine(HexText(<<18>>)),
      DataLine(Base64UrlText(<<26>>)),
      DataLine(Base64UrlText(<<34>>)),
      DataLine(<<"a">>),
      TabbedDataLine(<<"f", "f">>),
      DataLine(DoneMarker),
      <<>>,
      <<"\t">>,
      <<":">> }

\* the line holds the end marker
IsDoneLine(line) == StartsWithData(line) /\ Payload(line) = DoneMarker

\* done: the end marker was among the lines read
\* skipped: why each frame that was passed over failed, in wire order
NewStream ==
    [pc |-> "open", lines |-> 0, done |-> FALSE, skipped |-> <<>>,
     run |-> [d \in Drivers |-> NewParser]]

\* both drivers read the next line of the same answer
ReadLine(line) ==
    /\ sse.pc = "open"
    /\ sse.lines < MaxLines
    /\ LET run == [d \in Drivers |-> ReadLineOf(d, sse.run[d], line)]
       IN  sse' = [sse EXCEPT !.lines = sse.lines + 1,
                              !.done = @ \/ IsDoneLine(line),
                              !.skipped =
                                  LET st == sse.run["parsed"]
                                  IN  IF /\ EndsFrame(st, line)
                                         /\ FrameFailure(st.current_data) # ""
                                      THEN Append(@, FrameFailure(st.current_data))
                                      ELSE @,
                              !.run = run,
                              !.pc = IF \A d \in Drivers : run[d].pc = "returned"
                                     THEN "returned" ELSE "open"]
    /\ ret' = NoCall
    /\ UNCHANGED <<pool, now, req, lock>>

\* the answer ends without the end marker
EndOfStream ==
    /\ sse.pc = "open"
    /\ sse' = [sse EXCEPT !.pc = "returned",
                          !.run = [d \in Drivers |-> Return(d, sse.run[d])]]
    /\ ret' = NoCall
    /\ UNCHANGED <<pool, now, req, lock>>

\* hist holds the events decoded so far, in the order of the blank lines that
\* ended their frames
ObserveDecoded(line) ==
    LET raw_bytes == parse_payload_bytes(sse.run["parsed"].current_data)
    IN  hist' = IF /\ ~StartsWithData(line)
                   /\ Strip(line) = <<>>
                   /\ sse.run["parsed"].current_data # <<>>
                   /\ raw_bytes # NoBytes
                   /\ Decodable(raw_bytes)
                THEN Append(hist, protobuf_to_dict(raw_bytes))
                ELSE hist

InitSSE ==
    /\ tokens = Initialize(1, <<>>, <<>>)
    /\ current_index = ZeroIndex
    /\ last_used_index = ZeroIndex
    /\ failed_tokens = {}
    /\ now = TickSize
    /\ ret = NoCall
    /\ req = [r \in Requests |-> NewRequest]
    /\ hist = <<>>
    /\ lock = None
    /\ \E show_all_events \in BOOLEAN :
          sse = [NewStream EXCEPT !.run["plain"].show_all_events = show_all_events]

NextSSE ==
    \/ \E line \in SseLines : ReadLine(line) /\ ObserveDecoded(line)
    \/ EndOfStream /\ UNCHANGED hist

SpecSSE == InitSSE /\ [][NextSSE]_vars

(* ------------------- the payload decoder on framed bytes ---------------- *)
\* the loop hands the decoder a non-empty accumulator only (api_client.py:273,
\* 281), so the framed byte strings have at least one byte
ByteStrings == UNION {[1..n -> PayloadBytes] : n \in 1..MaxPayloadBytes}
Framings == {"hex", "base64url"}

Framed(bytes, framing) ==
    IF framing = "hex" THEN HexText(bytes) ELSE Base64UrlText(bytes)

\* the decoder of driver d is applied to the framed bytes
DecodePayload(d) ==
    /\ sse.pc = "payload"
    /\ ~sse.decoded[d]
    /\ sse' = [sse EXCEPT !.decoded[d] = TRUE,
                          !.raw_bytes[d] =
                              parse_payload_bytes(Framed(sse.bytes, sse.framing))]
    /\ ret' = NoCall
    /\ UNCHANGED <<pool, now, req, lock>>

InitDecode ==
    /\ tokens = Initialize(1, <<>>, <<>>)
    /\ current_index = ZeroIndex
    /\ last_used_index = ZeroIndex
    /\ failed_tokens = {}
    /\ now = TickSize
    /\ ret = NoCall
    /\ req = [r \in Requests |-> NewRequest]
    /\ hist = <<>>
    /\ lock = None
    /\ \E bytes \in ByteStrings, framing \in Framings :
          sse = [pc |-> "payload", bytes |-> bytes, framing |-> framing,
                 decoded |-> [d \in Drivers |-> FALSE],
                 raw_bytes |-> [d \in Drivers |-> NoBytes]]

NextDecode == \E d \in Drivers : DecodePayload(d) /\ UNCHANGED hist

SpecDecode == InitDecode /\ [][NextDecode]_vars

(* ======================================================================= *)
(*        The two drivers against the same store and the same answers      *)
(* ======================================================================= *)
\* What the services answer in one run: the status and body of the n-th
\* upstream POST, the refresh tokens the identity service exchanges for a
\* credential, whether anonymous provisioning succeeds, and expires_in.
PairEnvs ==
    [upstream : [1..MaxAttempts -> Responses],
     refreshable : SUBSET TokenIds,
     provision_ok : BOOLEAN,
     expires_in : ExpiresInChoices]

RECURSIVE CacheFrom(_, _, _)
\* the store after earlier requests cached a credential on every record from
\* position i on
CacheFrom(toks, i, expiry) ==
    IF i > Len(toks) THEN toks
    ELSE CacheFrom(mark_token_success(toks, {}, i, Jwt(toks[i].refresh_token),
                                      expiry).tokens,
                   i + 1, expiry)

\* send_protobuf_to_warp_api runs first, send_protobuf_to_warp_api_parsed second
Turn(r) == sse.pc = "pair" /\ sse.turn = Driver(r)

\* the calls a driver made, in order
Logged(r, calls) == [sse EXCEPT !.calls[Driver(r)] = @ \o calls]

RefreshAnswer(i) == tokens[i].refresh_token \in sse.env.refreshable
RefreshCall(i) ==
    [op |-> "refresh_jwt_token_with_token_info", arg |-> tokens[i].refresh_token,
     res |-> IF RefreshAnswer(i) THEN 1 ELSE None]

PairStart(r) ==
    /\ Turn(r)
    /\ Start(r)
    /\ sse' = Logged(r, <<ret'>>)

PairRefreshInitial(r) ==
    /\ Turn(r)
    /\ req[r].pc = "refresh_initial"
    /\ RefreshInitial(r, RefreshAnswer(req[r].token_info), sse.env.expires_in)
    /\ sse' = Logged(r, <<RefreshCall(req[r].token_info)>>)

PairUpstream(r) ==
    /\ Turn(r)
    /\ req[r].pc = "post"
    /\ LET resp == sse.env.upstream[req[r].posts]
       IN  /\ Upstream(r, resp)
           /\ sse' = Logged(r, <<[op |-> "post", arg |-> req[r].jwt,
                                  res |-> resp.status]>>)

\* the body of the answer is read; the selector call of a rotation is logged
PairAread(r) ==
    /\ Turn(r)
    /\ Aread(r)
    /\ sse' = Logged(r, IF ret'.op = "none" THEN <<>> ELSE <<ret'>>)

PairRefreshQuota(r) ==
    /\ Turn(r)
    /\ req[r].pc = "refresh_quota"
    /\ RefreshQuota(r, RefreshAnswer(req[r].token_info), sse.env.expires_in)
    /\ sse' = Logged(r, <<RefreshCall(req[r].token_info)>>)

PairRefreshServer(r) ==
    /\ Turn(r)
    /\ req[r].pc = "refresh_server"
    /\ RefreshServer(r, RefreshAnswer(req[r].token_info), sse.env.expires_in)
    /\ sse' = Logged(r, <<RefreshCall(req[r].token_info)>>)

PairProvision(r) ==
    /\ Turn(r)
    /\ Provision(r, sse.env.provision_ok, sse.env.expires_in)
    /\ sse' = Logged(r, <<[op |-> "acquire_anonymous_access_token", arg |-> None,
                           res |-> IF sse.env.provision_ok THEN 1 ELSE None]>>)

\* the first driver returned: the store is put back as it was, and the second
\* driver is called with the same answers
SecondRun ==
    /\ sse.pc = "pair"
    /\ sse.turn = "plain"
    /\ \E r \in Requests : Driver(r) = "plain" /\ req[r].pc = "done"
    /\ tokens' = sse.pool0[1]
    /\ current_index' = sse.pool0[2]
    /\ last_used_index' = sse.pool0[3]
    /\ failed_tokens' = sse.pool0[4]
    /\ sse' = [sse EXCEPT !.turn = "parsed"]
    /\ ret' = NoCall
    /\ UNCHANGED <<now, req, lock>>

InitPair ==
    /\ \E cfg \in EnvConfigs, cached \in BOOLEAN :
          LET toks == Initialize(cfg[1], cfg[2], cfg[3])
          IN  tokens = IF cached
                       THEN CacheFrom(toks, 1, TickSize + JwtMargin + TickSize)
                       ELSE toks
    /\ current_index = ZeroIndex
    /\ last_used_index = ZeroIndex
    /\ failed_tokens = {}
    /\ now = TickSize
    /\ ret = NoCall
    /\ req = [r \in Requests |-> NewRequest]
    /\ hist = <<>>
    /\ lock = None
    /\ \E env \in PairEnvs :
          sse = [pc |-> "pair", turn |-> "plain", env |-> env,
                 pool0 |-> <<tokens, current_index, last_used_index, failed_tokens>>,
                 calls |-> [d \in Drivers |-> <<>>]]

NextPair ==
    \/ (\E r \in Requests : PairStart(r)) /\ UNCHANGED hist
    \/ (\E r \in Requests : PairRefreshInitial(r)) /\ UNCHANGED hist
    \/ (\E r \in Requests : PairUpstream(r)) /\ UNCHANGED hist
    \/ (\E r \in Requests : PairAread(r)) /\ UNCHANGED hist
    \/ (\E r \in Requests : Turn(r) /\ GetValidJwt(r) /\ UNCHANGED sse) /\ UNCHANGED hist
    \/ (\E r \in Requests, done_marker \in BOOLEAN :
           Turn(r) /\ StreamEnd(r, done_marker) /\ UNCHANGED sse) /\ UNCHANGED hist
    \/ (\E r \in Requests : Turn(r) /\ StreamExit(r) /\ UNCHANGED sse) /\ UNCHANGED hist
    \/ (\E r \in Requests : Turn(r) /\ ClientExit(r) /\ UNCHANGED sse) /\ UNCHANGED hist
    \/ (\E r \in Requests : PairRefreshQuota(r)) /\ UNCHANGED hist
    \/ (\E r \in Requests : PairRefreshServer(r)) /\ UNCHANGED hist
    \/ (\E r \in Requests : PairProvision(r)) /\ UNCHANGED hist
    \/ SecondRun /\ UNCHANGED hist

SpecPair == InitPair /\ [][NextPair]_vars

(* ======================================================================= *)
(*              The first callers of the global token pool                 *)
(* ======================================================================= *)
\* The module-level _token_pool is None when the process starts. Every caller
\* is a coroutine of one event loop: it runs until an await, and the model
\* lets another caller run at every await, which includes the schedules in
\* which the awaited call returns without suspending.
Selectors == {"get_next_token", "get_next_token_excluding"}

NewCaller ==
    [pc |-> "idle",
     selector |-> "none",           \* the selector it goes on to call
     exclude_token |-> None,
     awaited |-> "none",            \* where it awaited initialize from
     initialized |-> FALSE,         \* _initialized when its selection ran
     res |-> None]                  \* the refresh token of the record returned

\* token_pool.py:88-99: the three lists are added to the records held
LoadInto(toks, anonymous_token, shared_tokens, personal_tokens) ==
    LET a == IF anonymous_token # None
             THEN AddTokenInternal(toks, anonymous_token, ANONYMOUS)
             ELSE toks
    IN  AddAll(AddAll(a, shared_tokens, SHARED), personal_tokens, PERSONAL)

LoadsAgain(c) == FALSE

\* token_pool.py:83-84: "if self._initialized: return" under the lock
AlreadyInitialized(c) == sse.initialized

\* token_pool.py:424-427: the test of the global and the construction hold no
\* await; initialize is awaited on the new instance
get_token_pool(c) ==
    /\ sse.pc = "start"
    /\ sse.caller[c].pc = "idle"
    /\ \E sel \in Selectors, ex \in {None} \cup {t \in TokenIds : t <= 2} :
          /\ sel = "get_next_token" => ex = None
          /\ sse' = [sse EXCEPT
                        !.caller[c].selector = sel,
                        !.caller[c].exclude_token = ex,
                        !.caller[c].pc = IF sse.token_pool = None
                                         THEN "get_token_pool:initialize"
                                         ELSE "selector",
                        !.token_pool = 1,
                        !.instances = IF sse.token_pool = None THEN @ + 1 ELSE @]
    /\ ret' = NoCall
    /\ UNCHANGED <<pool, now, req, lock>>

\* token_pool.py:80-104: under the lock, the environment's tokens are loaded
\* unless an earlier call did it; then the caller goes on
initialize(c) ==
    /\ sse.pc = "start"
    /\ sse.caller[c].pc \in {"get_token_pool:initialize", "selector:initialize"}
    /\ UNCHANGED lock
    /\ IF AlreadyInitialized(c)
       THEN /\ UNCHANGED tokens
            /\ sse' = [sse EXCEPT
                          !.caller[c].awaited = sse.caller[c].pc,
                          !.caller[c].pc =
                              IF @ = "get_token_pool:initialize" THEN "selector"
                              ELSE "select"]
       ELSE /\ tokens' = LoadInto(tokens, sse.cfg[1], sse.cfg[2], sse.cfg[3])
            /\ sse' = [sse EXCEPT
                          !.initialized = TRUE,
                          !.loads = @ + 1,
                          !.caller[c].awaited = sse.caller[c].pc,
                          !.caller[c].pc =
                              IF @ = "get_token_pool:initialize" THEN "selector"
                              ELSE "select"]
    /\ ret' = NoCall
    /\ UNCHANGED <<current_index, last_used_index, failed_tokens, now, req>>

\* token_pool.py:192-193 (257-258): "if not self._initialized: await
\* self.initialize()" at the head of both selectors
EnterSelector(c) ==
    /\ sse.pc = "start"
    /\ sse.caller[c].pc = "selector"
    /\ sse' = [sse EXCEPT !.caller[c].pc = IF sse.initialized THEN "select"
                                           ELSE "selector:initialize"]
    /\ ret' = NoCall
    /\ UNCHANGED <<pool, now, req, lock>>

\* token_pool.py:195-205 (260-286): the selection under the lock
Select(c) ==
    /\ sse.pc = "start"
    /\ sse.caller[c].pc = "select"
    /\ UNCHANGED lock
    /\ LET me == sse.caller[c]
           g == IF me.selector = "get_next_token"
                THEN get_next_token(tokens, failed_tokens, current_index, now)
                ELSE get_next_token_excluding(tokens, failed_tokens, last_used_index,
                                              me.exclude_token, now)
           res == IF g.tok = None THEN None ELSE tokens[g.tok].refresh_token
       IN  /\ tokens' = g.tokens
           /\ current_index' = IF me.selector = "get_next_token"
                               THEN g.current_index ELSE current_index
           /\ last_used_index' = IF me.selector = "get_next_token"
                                 THEN last_used_index ELSE g.last_used_index
           /\ ret' = [op |-> me.selector, arg |-> me.exclude_token, res |-> res]
           /\ sse' = [sse EXCEPT !.caller[c].pc = "done",
                                 !.caller[c].initialized = sse.initialized,
                                 !.caller[c].res = res]
    /\ UNCHANGED <<failed_tokens, now, req>>

InitStart ==
    /\ tokens = <<>>
    /\ current_index = ZeroIndex
    /\ last_used_index = ZeroIndex
    /\ failed_tokens = {}
    /\ now = TickSize
    /\ ret = NoCall
    /\ req = [r \in Requests |-> NewRequest]
    /\ hist = <<>>
    /\ lock = None
    /\ \E cfg \in EnvConfigs :
          sse = [pc |-> "start", cfg |-> cfg, token_pool |-> None,
                 instances |-> 0, initialized |-> FALSE, loads |-> 0,
                 caller |-> [c \in Callers |-> NewCaller]]

NextStart ==
    \/ (\E c \in Callers : get_token_pool(c)) /\ UNCHANGED hist
    \/ (\E c \in Callers : initialize(c)) /\ UNCHANGED hist
    \/ (\E c \in Callers : EnterSelector(c)) /\ UNCHANGED hist
    \/ (\E c \in Callers : Select(c)) /\ UNCHANGED hist

SpecStart == InitStart /\ [][NextStart]_vars

(* ======================================================================= *)
(*          The store's lock among the coroutines of the event loop        *)
(* ======================================================================= *)
\* The callers of the store are coroutines of one event loop: the coroutine
\* that runs goes on, statement by statement, until it suspends at an await
\* whose result is not ready, and only then the loop runs another one.
\* sse.running is the coroutine that runs, None when all are suspended.
StoreOperations ==
    {"initialize", "add_token", "get_next_token", "get_next_token_excluding",
     "mark_token_failed", "mark_token_success", "get_pool_stats", "health_check",
     "recover_failed_tokens"}

\* the awaited calls that wait for the network: refresh_jwt_token_with_token_info
\* (api_client.py:107, 199, 233), acquire_anonymous_access_token (176) and
\* client.stream("POST", ...) (132)
NetworkCalls == {"refresh", "provision", "post"}

\* an await inside the body of "async with self._lock"
StatementsAwaitingInLock(op, initialized) ==
    IF op = "initialize" THEN <<"acquire", "initialize", "release">>
    ELSE IF op \in Selectors /\ ~initialized
    THEN <<"acquire", "initialize", "release", "acquire", "body", "release">>
    ELSE IF op \in StoreOperations THEN <<"acquire", "await", "body", "release">>
    ELSE <<"await">>

\* the statements of a call, in order. "acquire" and "release" are the entry
\* and the exit of "async with self._lock", "body" the statements between them
\* (token_pool.py:83-104, 182-183, 196-205, 261-286, 291-298, 303-309, 314-335,
\* 360-392, 400-415: none of them awaits), "initialize" the body of initialize,
\* which both selectors await first while _initialized is false (192-193,
\* 257-258); "await" is a wait for the network, which suspends the coroutine
Statements(op, initialized) ==
    IF op = "initialize" THEN <<"acquire", "initialize", "release">>
    ELSE IF op \in Selectors /\ ~initialized
    THEN <<"acquire", "initialize", "release", "acquire", "body", "release">>
    ELSE IF op \in StoreOperations THEN <<"acquire", "body", "release">>
    ELSE <<"await">>

\* a coroutine that is in no call of the store or of the network
NoCoroutine == [op |-> "none", arg |-> None, todo |-> <<>>]

\* the statement coroutine c executes next, or is suspended at
Statement(c) ==
    IF sse.caller[c].todo = <<>> THEN "none" ELSE Head(sse.caller[c].todo)

\* the statement is over: the next one follows or the call returns, and the
\* coroutine goes on running
Proceed(c) ==
    IF Len(sse.caller[c].todo) = 1
    THEN [sse EXCEPT !.running = c, !.caller[c] = NoCoroutine]
    ELSE [sse EXCEPT !.running = c, !.caller[c].todo = Tail(@)]

\* the environments of the store under the lock: one ANONYMOUS token, alone or
\* with a PERSONAL one
LockConfigs == {cfg \in EnvConfigs : cfg[1] = 1 /\ cfg[2] = <<>> /\ Len(cfg[3]) <= 1}

\* the arguments of the calls: add_token is given a token the environment
\* does not hold; the selectors exclude nothing or the first record; failures
\* and successes are counted on the first record
CallArguments(op) ==
    IF op = "add_token" THEN {<<MaxTokens, ANONYMOUS>>}
    ELSE IF op = "get_next_token_excluding"
    THEN {None} \cup {tokens[i].refresh_token : i \in {j \in 1..Len(tokens) : j = 1}}
    ELSE IF op \in {"mark_token_failed", "mark_token_success"}
    THEN {tokens[i].refresh_token : i \in {j \in 1..Len(tokens) : j = 1}}
    ELSE {None}

\* coroutine c, which runs or which the loop resumes, calls op
Call(c, op, arg) ==
    /\ sse.pc = "loop"
    /\ sse.running \in {None, c}
    /\ Statement(c) = "none"
    /\ arg \in CallArguments(op)
    /\ sse' = [sse EXCEPT !.running = c,
                          !.caller[c] = [op |-> op, arg |-> arg,
                                         todo |-> Statements(op, sse.initialized)]]
    /\ ret' = NoCall
    /\ UNCHANGED <<pool, now, req, lock>>

\* "async with self._lock", entry: a free lock is taken without suspending; a
\* coroutine that finds it held is suspended without it and tries again when
\* the lock is free
Acquire(c) ==
    /\ sse.pc = "loop"
    /\ Statement(c) = "acquire"
    /\ sse.running = c \/ (sse.running = None /\ lock = None)
    /\ IF lock = None
       THEN lock' = c /\ sse' = Proceed(c)
       ELSE UNCHANGED lock /\ sse' = [sse EXCEPT !.running = None]
    /\ ret' = NoCall
    /\ UNCHANGED <<pool, now, req>>

\* token_pool.py:83-104: initialize's body loads the environment's tokens
\* unless an earlier call did
InitializeBody(c) ==
    /\ sse.pc = "loop"
    /\ sse.running = c
    /\ Statement(c) = "initialize"
    /\ tokens' = IF sse.initialized THEN tokens
                 ELSE LoadInto(tokens, sse.cfg[1], sse.cfg[2], sse.cfg[3])
    /\ sse' = [Proceed(c) EXCEPT !.initialized = TRUE]
    /\ ret' = NoCall
    /\ UNCHANGED <<current_index, last_used_index, failed_tokens, now, req, lock>>

\* what the body of store operation op does to the store, and its result
BodyOf(op, arg) ==
    LET same == [tokens |-> tokens, current_index |-> current_index,
                 last_used_index |-> last_used_index,
                 failed_tokens |-> failed_tokens, res |-> None]
        i == IndexOf(tokens, arg)
    IN  CASE op = "add_token" ->
               [same EXCEPT !.tokens = AddTokenInternal(tokens, arg[1], arg[2])]
          [] op = "get_next_token" ->
               LET g == get_next_token(tokens, failed_tokens, current_index, now)
               IN  [same EXCEPT !.tokens = g.tokens,
                                !.current_index = g.current_index,
                                !.res = IF g.tok = None THEN None
                                        ELSE tokens[g.tok].refresh_token]
          [] op = "get_next_token_excluding" ->
               LET g == get_next_token_excluding(tokens, failed_tokens,
                                                 last_used_index, arg, now)
               IN  [same EXCEPT !.tokens = g.tokens,
                                !.last_used_index = g.last_used_index,
                                !.res = IF g.tok = None THEN None
                                        ELSE tokens[g.tok].refresh_token]
          [] op = "mark_token_failed" ->
               LET m == mark_token_failed(tokens, failed_tokens, i)
               IN  [same EXCEPT !.tokens = m.tokens,
                                !.failed_tokens = m.failed_tokens]
          [] op = "mark_token_success" ->
               LET m == mark_token_success(tokens, failed_tokens, i, NoJwt, 0)
               IN  [same EXCEPT !.tokens = m.tokens,
                                !.failed_tokens = m.failed_tokens]
          [] op = "recover_failed_tokens" ->
               LET m == recover_failed_tokens(tokens, failed_tokens)
               IN  [same EXCEPT !.tokens = m.tokens,
                                !.failed_tokens = m.failed_tokens,
                                !.res = m.recovered]
          [] op = "get_pool_stats" ->
               [same EXCEPT !.res = get_pool_stats(tokens, failed_tokens).active_tokens]
          [] op = "health_check" ->
               [same EXCEPT !.res = health_check(tokens, failed_tokens).healthy_tokens]

\* the body of a store operation runs, from its first statement to its last
Body(c) ==
    /\ sse.pc = "loop"
    /\ sse.running = c
    /\ Statement(c) = "body"
    /\ LET me == sse.caller[c]
           b == BodyOf(me.op, me.arg)
       IN  /\ me.op = "mark_token_failed" =>
                  tokens[IndexOf(tokens, me.arg)].failure_count < MaxFailureCount
           /\ tokens' = b.tokens
           /\ current_index' = b.current_index
           /\ last_used_index' = b.last_used_index
           /\ failed_tokens' = b.failed_tokens
           /\ ret' = IF me.op \in {"add_token", "mark_token_failed", "mark_token_success"}
                     THEN NoCall
                     ELSE [op |-> me.op, arg |-> me.arg, res |-> b.res]
    /\ sse' = Proceed(c)
    /\ UNCHANGED <<now, req, lock>>

\* "async with self._lock", exit: the lock is released
Release(c) ==
    /\ sse.pc = "loop"
    /\ sse.running = c
    /\ Statement(c) = "release"
    /\ lock' = IF lock = c THEN None ELSE lock
    /\ sse' = Proceed(c)
    /\ ret' = NoCall
    /\ UNCHANGED <<pool, now, req>>

\* the coroutine reaches an await whose result the network has yet to bring:
\* it is suspended, with what it holds, and the loop runs the others
Await(c) ==
    /\ sse.pc = "loop"
    /\ sse.running = c
    /\ Statement(c) = "await"
    /\ sse' = [sse EXCEPT !.running = None]
    /\ ret' = NoCall
    /\ UNCHANGED <<pool, now, req, lock>>

\* the awaited result arrived and the loop resumes the coroutine
Resume(c) ==
    /\ sse.pc = "loop"
    /\ sse.running = None
    /\ Statement(c) = "await"
    /\ sse' = Proceed(c)
    /\ ret' = NoCall
    /\ UNCHANGED <<pool, now, req, lock>>

InitLock ==
    /\ tokens = <<>>
    /\ current_index = ZeroIndex
    /\ last_used_index = ZeroIndex
    /\ failed_tokens = {}
    /\ now = TickSize
    /\ ret = NoCall
    /\ req = [r \in Requests |-> NewRequest]
    /\ hist = <<>>
    /\ lock = None
    /\ \E cfg \in LockConfigs :
          sse = [pc |-> "loop", cfg |-> cfg, initialized |-> FALSE, running |-> None,
                 caller |-> [c \in Callers |-> NoCoroutine]]

NextLock ==
    \/ (\E c \in Callers, op \in StoreOperations \cup NetworkCalls :
           \E arg \in CallArguments(op) : Call(c, op, arg)) /\ UNCHANGED hist
    \/ (\E c \in Callers : Acquire(c)) /\ UNCHANGED hist
    \/ (\E c \in Callers : InitializeBody(c)) /\ UNCHANGED hist
    \/ (\E c \in Callers : Body(c)) /\ UNCHANGED hist
    \/ (\E c \in Callers : Release(c)) /\ UNCHANGED hist
    \/ (\E c \in Callers : Await(c)) /\ UNCHANGED hist
    \/ (\E c \in Callers : Resume(c)) /\ UNCHANGED hist

SpecLock == InitLock /\ [][NextLock]_vars

(* ======================================================================= *)
(*            protobuf2openai/auth.py: the require_auth wrapper            *)
(* ======================================================================= *)
\* a missing value (None) among texts
NoText == <<"None">>
BearerPrefix == <<"B", "e", "a", "r", "e", "r", " ">>

\* the expected_token argument of the constructor and the API_TOKEN variable:
\* unset, empty, or a token
ConfiguredTokens == {NoText, <<>>, <<"0", "0", "1">>}

\* what the Authorization header of the request holds, if anything
AuthorizationHeaders ==
    { NoText,
      <<>>,
      BearerPrefix,
      BearerPrefix \o <<"0", "0", "1">>,
      BearerPrefix \o <<"0", "0", "2">>,
      BearerPrefix \o <<"0", "0", "1", " ">>,
      BearerPrefix \o <<"N", "o", "n", "e">>,
      <<"b", "e", "a", "r", "e", "r", " ", "0", "0", "1">>,
      <<"0", "0", "1">> }

\* how the wrapped handler is called: the request as first positional
\* argument, as keyword argument "request", as keyword argument of another
\* name, as second positional argument, keyword "request" holding None, or no
\* request among the arguments
CallShapes ==
    {"args[0]", "kwargs[request]", "kwargs[req]", "args[1]", "kwargs[request]=None",
     "no request"}

\* "x or y" and "not x" on an optional text: None and "" are falsy
Falsy(text) == text = NoText \/ text = <<>>

\* auth.py:16-33: expected_token or os.getenv("API_TOKEN"), None when unset
BearerTokenAuth(expected_token, api_token) ==
    LET chosen == IF Falsy(expected_token) THEN api_token ELSE expected_token
    IN  IF Falsy(chosen) THEN NoText ELSE chosen

StartsWith(text, prefix) ==
    Len(text) >= Len(prefix) /\ SubSeq(text, 1, Len(prefix)) = prefix

\* auth.py:35-57
authenticate(expected_token, authorization) ==
    IF Falsy(expected_token) THEN FALSE
    ELSE IF Falsy(authorization) THEN FALSE
    ELSE IF ~StartsWith(authorization, BearerPrefix) THEN FALSE
    ELSE SubSeq(authorization, 8, Len(authorization)) = expected_token

\* auth.py:112-116: the request object the wrapper finds among its arguments
FoundRequest(shape) == shape \in {"args[0]", "kwargs[request]"}

\* auth.py:118-119: authenticate_request is awaited when a request was found
ChecksRequest(shape) == FoundRequest(shape)

\* auth.py:110-119: the wrapper looks for the request
wrapper ==
    /\ sse.pc = "wrapper"
    /\ sse' = [sse EXCEPT !.pc = IF ChecksRequest(sse.shape)
                                 THEN "authenticate_request" ELSE "func"]
    /\ ret' = NoCall
    /\ UNCHANGED <<pool, now, req, lock>>

\* auth.py:78-97: the header is read and checked; HTTPException 401 on refusal
authenticate_request ==
    /\ sse.pc = "authenticate_request"
    /\ LET accepted == authenticate(sse.expected_token, sse.authorization)
       IN  sse' = [sse EXCEPT !.pc = IF accepted THEN "func" ELSE "HTTPException",
                              !.authenticated = accepted,
                              !.status = IF accepted THEN @ ELSE 401]
    /\ ret' = NoCall
    /\ UNCHANGED <<pool, now, req, lock>>

\* auth.py:121: the handler runs
func ==
    /\ sse.pc = "func"
    /\ sse' = [sse EXCEPT !.pc = "returned", !.handled = TRUE, !.status = 200]
    /\ ret' = NoCall
    /\ UNCHANGED <<pool, now, req, lock>>

InitAuth ==
    /\ tokens = Initialize(1, <<>>, <<>>)
    /\ current_index = ZeroIndex
    /\ last_used_index = ZeroIndex
    /\ failed_tokens = {}
    /\ now = TickSize
    /\ ret = NoCall
    /\ req = [r \in Requests |-> NewRequest]
    /\ hist = <<>>
    /\ lock = None
    /\ \E expected_token \in {NoText}, api_token \in ConfiguredTokens,
          authorization \in AuthorizationHeaders, shape \in CallShapes :
          sse = [pc |-> "wrapper",
                 expected_token |-> BearerTokenAuth(expected_token, api_token),
                 authorization |-> authorization,
                 shape |-> shape,
                 authenticated |-> FALSE,
                 handled |-> FALSE,
                 status |-> 0]

NextAuth ==
    \/ wrapper /\ UNCHANGED hist
    \/ authenticate_request /\ UNCHANGED hist
    \/ func /\ UNCHANGED hist

SpecAuth == InitAuth /\ [][NextAuth]_vars

(* ======================================================================= *)
(*                               Properties                                *)
(* ======================================================================= *)
Positions == 1..Len(tokens)
IsSelectable(i) == tokens[i].is_active /\ tokens[i].refresh_token \notin failed_tokens
SelectablePositions == {i \in Positions : IsSelectable(i)}
PositionOf(rt) == CHOOSE i \in Positions : tokens[i].refresh_token = rt
InPool(rt) == \E i \in Positions : tokens[i].refresh_token = rt
PriorityOf(rt) == tokens[PositionOf(rt)].priority

\* C1: get_next_token returns a record of class C only when no record of a
\* class with a lower numeric priority is selectable, and returns none iff no
\* record of any class is selectable.  (The selectors change neither is_active
\* nor the failed set, so the selectable records right after the call are
\* those at the time of the call.)
C1_PriorityOrder ==
    ret.op = "get_next_token" =>
        /\ (ret.res = None <=> SelectablePositions = {})
        /\ ret.res # None =>
              \A i \in SelectablePositions : tokens[i].priority >= PriorityOf(ret.res)

\* a Personal record is returned while an Anonymous and a Shared record exist,
\* both unselectable
C1_Witness ==
    /\ ret.op = "get_next_token"
    /\ ret.res # None
    /\ PriorityOf(ret.res) = PERSONAL
    /\ \E i \in Positions : tokens[i].priority = ANONYMOUS
    /\ \E i \in Positions : tokens[i].priority = SHARED

\* C2: every request opens at most 2 upstream POSTs, whatever the upstream
\* statuses, selector results, refresh outcomes and provisioning outcomes.
C2_AtMostTwoPosts ==
    \A r \in Requests : req[r].posts <= 2

\* both drivers have sent a second POST
C2_Witness ==
    \A r \in Requests : req[r].pc = "done" /\ req[r].posts = 2

\* C3: a record returned by get_next_token or get_next_token_excluding is, when
\* it is returned, active and not in the failed set.
C3_ReturnedIsSelectable ==
    (ret.op \in {"get_next_token", "get_next_token_excluding"} /\ ret.res # None) =>
        /\ tokens[PositionOf(ret.res)].is_active
        /\ ret.res \notin failed_tokens

\* a record is returned while a record of the same class is inactive without
\* being in the failed set, and another record is in the failed set
C3_Witness ==
    /\ ret.op = "get_next_token_excluding"
    /\ ret.res # None
    /\ \E i \in Positions : /\ ~tokens[i].is_active
                            /\ tokens[i].refresh_token \notin failed_tokens
                            /\ tokens[i].priority = PriorityOf(ret.res)
    /\ failed_tokens # {}

\* C4: while the selectable set stays unchanged and its first non-empty class
\* holds k records, any k consecutive get_next_token calls return each of the
\* k records exactly once (so with k >= 2 never the same record twice in a row).
\* hist is the window of the latest results, at most k long.
C4_RoundRobin ==
    /\ Len(hist) <= Cardinality(TopClass(tokens, failed_tokens))
    /\ \A i \in 1..Len(hist) : hist[i] \in {tokens[j].refresh_token : j \in SelectablePositions}
    /\ \A i, j \in 1..Len(hist) : i # j => hist[i] # hist[j]

\* a full window over a class of three records that began in the middle of the
\* list: the cursor wrapped around inside the window
C4_Witness ==
    /\ Len(hist) = 3
    /\ PositionOf(hist[1]) > PositionOf(hist[2])

\* the case C5 is about: the excluded token t is the only selectable record of
\* its class
SoleOfItsClass(t) ==
    /\ InPool(t)
    /\ IsSelectable(PositionOf(t))
    /\ \A i \in SelectablePositions :
          tokens[i].priority = PriorityOf(t) => tokens[i].refresh_token = t

LaterClassSelectable(t) ==
    \E i \in SelectablePositions : tokens[i].priority > PriorityOf(t)

EarlierClassSelectable(t) ==
    \E i \in SelectablePositions : tokens[i].priority < PriorityOf(t)

C5_NeverTheExcluded ==
    /\ ret.res # ret.arg
    /\ {tokens[i].refresh_token : i \in SelectablePositions} = {ret.arg} => ret.res = None

\* C5 as stated: get_next_token_excluding(t), t non-null, never returns the
\* record of t, returns none when t is the only selectable record of the store,
\* and returns a record of a later class when t is the only selectable record
\* of its class and a later class has a selectable record.
C5_Original ==
    (ret.op = "get_next_token_excluding" /\ ret.arg # None) =>
        /\ C5_NeverTheExcluded
        /\ (SoleOfItsClass(ret.arg) /\ LaterClassSelectable(ret.arg)) =>
              (ret.res # None /\ PriorityOf(ret.res) > PriorityOf(ret.arg))

\* C5 amended: as C5, but the record of a later class is returned only when no
\* earlier class has a selectable record; when one has, a record of the
\* earliest such class is returned.
C5_ExcludingAmended ==
    (ret.op = "get_next_token_excluding" /\ ret.arg # None) =>
        /\ C5_NeverTheExcluded
        /\ (SoleOfItsClass(ret.arg) /\ LaterClassSelectable(ret.arg)
                /\ ~EarlierClassSelectable(ret.arg)) =>
              (ret.res # None /\ PriorityOf(ret.res) > PriorityOf(ret.arg))
        /\ (SoleOfItsClass(ret.arg) /\ EarlierClassSelectable(ret.arg)) =>
              /\ ret.res # None
              /\ \A i \in SelectablePositions : tokens[i].priority >= PriorityOf(ret.res)

\* the excluded token is alone in its class, only a later class has selectable
\* records, and one of them is returned
C5_Witness ==
    /\ ret.op = "get_next_token_excluding"
    /\ ret.arg # None
    /\ SoleOfItsClass(ret.arg)
    /\ LaterClassSelectable(ret.arg)
    /\ ~EarlierClassSelectable(ret.arg)
    /\ ret.res # None
    /\ PriorityOf(ret.res) > PriorityOf(ret.arg)

FirstWasQuota(q) == q.posts >= 1 /\ q.first_status = 429 /\ q.first_quota

\* the refresh token of the record whose credential the first POST carried;
\* none when it carried the credential of the configuration, which belongs to
\* no record
FirstIdentity(q) ==
    IF q.first_jwt \in StoreIds THEN CHOOSE t \in StoreIds : Jwt(t) = q.first_jwt
    ELSE None

\* C6: when the first transaction returns 429 with a quota message,
\* get_next_token_excluding is called with the refresh token of the identity
\* that transaction was sent with; and if it returns a record and a
\* credential for that record is obtained, the second transaction carries it.
C6_QuotaRotation ==
    \A r \in Requests :
        LET q == req[r] IN
        FirstWasQuota(q) =>
            /\ q.rotated
            /\ q.excl_arg = FirstIdentity(q)
            /\ q.alt_ok => (q.alt # None /\ q.jwt = Jwt(q.alt))
            /\ (q.alt_ok /\ q.posts = 2) => q.jwt = Jwt(q.alt)

\* S2: the pool holds Anonymous A and Personal P; A answers 429 (quota), the
\* second POST goes with P's credential and succeeds
C6_Witness ==
    /\ Len(tokens) = 2
    /\ tokens[1].priority = ANONYMOUS
    /\ tokens[2].priority = PERSONAL
    /\ \E r \in Requests :
          /\ FirstWasQuota(req[r])
          /\ req[r].first_jwt = Jwt(tokens[1].refresh_token)
          /\ req[r].alt = tokens[2].refresh_token
          /\ req[r].posts = 2
          /\ req[r].jwt = Jwt(tokens[2].refresh_token)
          /\ req[r].outcome = "ok"

\* C7: acquire_anonymous_access_token is invoked only after a quota-429 on the
\* first attempt and only if get_next_token_excluding returned no record, in
\* either driver.
C7_ProvisionOnlyWithoutAlternate ==
    \A r \in Requests :
        req[r].provisions > 0 =>
            (FirstWasQuota(req[r]) /\ req[r].rotated /\ req[r].alt = None)

\* C8: after a 500 on the first transaction provisioning is never invoked, and
\* if get_next_token_excluding returns no record the request ends in failure
\* with status 500 after exactly one upstream transaction.
C8_ServerErrorRotation ==
    \A r \in Requests :
        LET q == req[r] IN
        (q.posts >= 1 /\ q.first_status = 500) =>
            /\ q.provisions = 0
            /\ q.pc \notin {"provision", "provision_fallback"}
            /\ q.rotated
            /\ q.alt = None =>
                  /\ q.pc \in {"client_close", "done"}
                  /\ q.outcome = "fail" /\ q.status = 500 /\ q.posts = 1

\* S5: the pool holds one Personal record; the first POST, sent with its
\* credential, answers 500 and the request fails with status 500
C8_Witness ==
    /\ Len(tokens) = 1
    /\ tokens[1].priority = PERSONAL
    /\ \E r \in Requests :
          /\ req[r].first_jwt = Jwt(tokens[1].refresh_token)
          /\ req[r].first_status = 500
          /\ req[r].alt = None
          /\ req[r].pc = "done"
          /\ req[r].outcome = "fail"
          /\ req[r].status = 500
          /\ req[r].posts = 1

\* C9: a request that ends in failure because the upstream answered 429 or 5xx
\* for the identity in use has applied mark_token_failed to that identity
\* once: its failure_count at the return is one higher than when the POST
\* was opened.
C9_FailureCounted ==
    \A r \in Requests :
        LET q == req[r] IN
        (q.pc = "done" /\ q.outcome = "fail" /\ q.status \in {429, 500, 503}
            /\ q.used # None) =>
            q.fc_end = q.fc_sent + 1

\* C10: when a request ends in success the identity whose credential was used
\* has failure_count 0.
C10_SuccessClearsFailures ==
    \A r \in Requests :
        LET q == req[r] IN
        (q.pc = "done" /\ q.outcome = "ok" /\ q.used # None) => q.fc_end = 0

\* C11: a request that ends in success has zeroed the failure count and cached
\* the credential of exactly one record, and has written no field of any other
\* record (last_used included, the record tried before a rotation included).
C11_SucceedFrame ==
    \A r \in Requests :
        LET q == req[r] IN
        (q.pc = "done" /\ q.outcome = "ok") =>
            \E t \in StoreIds : q.marked = {t} /\ q.mutated \subseteq {t}

\* C16: the cached credential of the record chosen at the start is used without
\* a refresh only if its remaining lifetime is strictly greater than 120 s;
\* with exactly 120 s or less remaining, or with no cached credential, the
\* refresh of that record is invoked before the first POST.
C16_CacheMargin ==
    \A r \in Requests :
        LET q == req[r] IN
        q.sel # None =>
            /\ (~q.initial_refresh) => (q.sel_has_jwt /\ q.sel_remaining > 120)
            /\ (~q.sel_has_jwt \/ q.sel_remaining <= 120) => q.initial_refresh
            /\ (q.initial_refresh /\ q.posts > 0) => q.first_jwt \in {Jwt(q.sel), EnvJwt}

\* a request found exactly 120 s left on the cached credential of the record
\* it chose, refreshed it and sent the first POST with the refreshed credential
C16_Witness ==
    \E r \in Requests : /\ req[r].sel_has_jwt
                         /\ req[r].sel_remaining = 120
                         /\ req[r].initial_refresh
                         /\ req[r].first_jwt = Jwt(req[r].sel)

\* C17: no POST carries a cached credential with 120 s or less of lifetime
\* left, neither the first one nor the one sent after the rotation on a
\* quota-429: a cached credential of the alternate record is taken only when
\* more than 120 s remain, otherwise the alternate is refreshed.
C17_NoStaleCachedCredential ==
    \A r \in Requests :
        LET q == req[r] IN
        /\ (q.sel # None /\ ~q.initial_refresh) => q.sel_remaining > 120
        /\ q.alt_cache_hit => q.alt_remaining > 120

\* C18: the token passed to get_next_token_excluding by a request's rotation is
\* the refresh token of the record this request's own get_next_token returned,
\* or none if it returned no record.
C18_ExcludeOwnSelection ==
    \A r \in Requests : req[r].rotated => req[r].excl_arg = req[r].sel

\* C12: in every reachable store state the failed set, the set of records
\* with failure_count >= 3 and the set of inactive records are the same set.
C12_FailedSetConsistent ==
    /\ failed_tokens = {tokens[i].refresh_token :
                           i \in {j \in Positions : tokens[j].failure_count >= 3}}
    /\ failed_tokens = {tokens[i].refresh_token :
                           i \in {j \in Positions : ~tokens[j].is_active}}

\* C13: recover_failed_tokens reactivates every deactivated record: when it
\* returns, every record that was inactive immediately before the call is
\* active with failure_count 0 and selectable, the failed set is empty, and
\* the returned integer is the number of records that were inactive
\* immediately before the call.
C13_RecoverDeactivated ==
    [][LastCall'.op = "recover_failed_tokens" =>
          /\ Len(tokens') = Len(tokens)
          /\ \A i \in Positions :
                 ~tokens[i].is_active =>
                     /\ tokens'[i].is_active
                     /\ tokens'[i].failure_count = 0
                     /\ tokens'[i].refresh_token \notin failed_tokens'
          /\ failed_tokens' = {}
          /\ LastCall'.res = Cardinality({i \in Positions : ~tokens[i].is_active})
         ]_vars

\* C14: a mark_token_failed that raises failure_count to 1 or to 2 leaves an
\* active, selectable record active and selectable; the one that raises it to 3
\* sets is_active to false, puts the refresh token in the failed set, and
\* neither selector returns the record from then on.
C14_ThirdFailureDeactivates ==
    [][\A i \in Positions :
          tokens'[i].failure_count = tokens[i].failure_count + 1 =>
              /\ (tokens'[i].failure_count < 3 /\ IsSelectable(i)) =>
                     /\ tokens'[i].is_active
                     /\ tokens'[i].refresh_token \notin failed_tokens'
              /\ tokens'[i].failure_count = 3 =>
                     /\ ~tokens'[i].is_active
                     /\ tokens'[i].refresh_token \in failed_tokens'
                     /\ NextTokenFrom(tokens', failed_tokens', current_index', 1).tok # i
                     /\ \A x \in {None} \cup TokenIds :
                            NextExcludingFrom(tokens', failed_tokens',
                                              last_used_index', x, 1).tok # i]_vars

\* one record has been failed three times and is out of selection, another
\* has been failed twice and is still selectable
C14_Witness ==
    \E i, j \in Positions :
        /\ tokens[i].failure_count = 3
        /\ ~tokens[i].is_active
        /\ tokens[i].refresh_token \in failed_tokens
        /\ tokens[j].failure_count = 2
        /\ IsSelectable(j)

\* C15: right after mark_token_success(r) returns, r.failure_count is 0 and
\* r.refresh_token is not in the failed set.
C15_SuccessResets ==
    LastCall.op = "mark_token_success" =>
        /\ tokens[PositionOf(LastCall.arg)].failure_count = 0
        /\ LastCall.arg \notin failed_tokens

\* mark_token_success has returned for a record that three failures had
\* deactivated and put in the failed set
C15_Witness ==
    /\ LastCall.op = "mark_token_success"
    /\ ~tokens[PositionOf(LastCall.arg)].is_active
    /\ tokens[PositionOf(LastCall.arg)].failure_count = 0

\* C19: once the caller has cancelled a request, no step of that request
\* changes a record field, a round-robin cursor or the failed set (so no
\* failure_count is incremented for the cancelled attempt).
C19_NoWriteAfterCancel ==
    [][\A r \in Requests :
          req[r].cancelled => (req'[r] = req[r] \/ pool' = pool)]_vars

\* a request was cancelled while the refresh of the alternate record was in
\* flight, after it had rotated, and another caller has failed that record since
C19_Witness ==
    \E r \in Requests :
        /\ req[r].cancelled
        /\ req[r].rotated
        /\ req[r].alt_refresh
        /\ req[r].posts = 1
        /\ req[r].outcome = "none"
        /\ tokens[req[r].token_info].failure_count > 0

\* C20: no coroutine is suspended while it holds the store's lock: in every
\* state the holder of the lock is the coroutine that runs; a coroutine
\* between the entry and the exit of "async with self._lock" holds the lock,
\* so no statement of another store operation runs between the first and the
\* last statement of a body; and a coroutine that waits, or is about to wait,
\* for refresh, provisioning or the upstream POST does not hold the lock.
C20_LockFreeAtAwaits ==
    /\ lock \in {None} \cup Callers
    /\ \A c \in Callers :
          /\ lock = c => sse.running = c
          /\ Statement(c) \in {"initialize", "body", "release"} => lock = c
          /\ Statement(c) = "await" => lock # c

\* one coroutine is suspended in a refresh and another in the upstream POST
\* while a third, past the body of mark_token_failed, holds the lock
C20_Witness ==
    \E c, d, e \in Callers :
        /\ sse.running = e
        /\ sse.caller[c].op = "refresh" /\ Statement(c) = "await"
        /\ sse.caller[d].op = "post" /\ Statement(d) = "await"
        /\ sse.caller[e].op = "mark_token_failed" /\ Statement(e) = "release"
        /\ lock = e
        /\ \E i \in 1..Len(tokens) : tokens[i].failure_count > 0

\* a response that the drivers do not retry: any non-200 answer to the second
\* POST, and a non-200 answer to the first POST that is neither 500 nor 429
\* with a quota message
NotRetried(q, resp) ==
    /\ resp.status # 200
    /\ \/ q.posts >= 2
       \/ ~(resp.status = 500 \/ (resp.status = 429 /\ resp.quota))

\* C21: a non-200 answer to the first POST that is neither 500 nor a quota-429,
\* and any non-200 answer to the second POST, ends the request with a failure
\* carrying that status: when the answer arrives the driver only goes on to
\* read its body, and in the very step in which the body is read it reaches
\* its return statement; neither step calls a selector, refresh or
\* provisioning (the store is left as it was) or opens a POST; all the request
\* does afterwards is to close its client and hand that failure to its caller,
\* and a request that has returned takes no further step (no upstream call
\* afterwards).
C21_EndsAtOnce ==
    [][ /\ \A r \in Requests, resp \in Responses :
              (/\ req[r].pc = "post" /\ req'[r] # req[r]
               /\ NotRetried(req[r], resp)
               /\ Upstream(r, resp)) =>
                  /\ req'[r].pc = "aread"
                  /\ req'[r].response = resp
                  /\ req'[r].outcome = "none"
                  /\ req'[r].posts = req[r].posts
                  /\ req'[r].provisions = req[r].provisions
                  /\ ret' = NoCall
                  /\ UNCHANGED pool
        /\ \A r \in Requests :
              (/\ req[r].pc = "aread" /\ req'[r] # req[r]
               /\ NotRetried(req[r], req[r].response)) =>
                  /\ req'[r] = [req[r] EXCEPT
                                   !.pc = "client_close",
                                   !.outcome = "fail",
                                   !.status = req[r].response.status,
                                   !.response = NoResponse,
                                   !.first_status = IF req[r].posts = 1
                                                    THEN req[r].response.status
                                                    ELSE @,
                                   !.first_quota = IF req[r].posts = 1
                                                   THEN req[r].response.quota
                                                   ELSE @]
                  /\ ret' = NoCall
                  /\ UNCHANGED pool
        /\ \A r \in Requests :
              (req[r].pc = "client_close" /\ req'[r] # req[r]) =>
                  /\ req'[r] = [req[r] EXCEPT !.pc = "done",
                                              !.fc_end = req'[r].fc_end]
                  /\ ret' = NoCall
                  /\ UNCHANGED pool
        /\ \A r \in Requests : req[r].pc = "done" => req'[r] = req[r] ]_vars

\* one request ended on a 503 answer to its only POST, the other on a 429
\* answer to its second POST
C21_Witness ==
    /\ req[1].pc = "done" /\ req[1].outcome = "fail"
    /\ req[1].posts = 1 /\ req[1].status = 503
    /\ req[2].pc = "done" /\ req[2].outcome = "fail"
    /\ req[2].posts = 2 /\ req[2].status = 429

\* C22: when the refresh of the record chosen at the start fails, that
\* record's failure_count is incremented and the request rotates to another
\* record before its first POST: the first POST of a request that chose a
\* record and refreshed it carries the credential of a record of the store
\* (the chosen one after a successful refresh, another one after a failed
\* refresh), never a credential that belongs to no record.
C22_RotateOnRefreshFailure ==
    \A r \in Requests :
        LET q == req[r] IN
        (q.sel # None /\ q.initial_refresh /\ q.posts >= 1) =>
            q.first_jwt \in {Jwt(t) : t \in StoreIds}

RecordSet(toks) == {toks[i].refresh_token : i \in 1..Len(toks)}

\* C23: when the first POST is answered 429 with a quota message, the selector
\* finds no alternate record and provisioning fails (no credential, or an
\* exception), the request ends in failure in that step, after exactly one
\* POST (it reaches its return statement, closes its client and returns that
\* failure), and the store holds the records it held before the request: the
\* failed provisioning leaves the store as it was, and the set of records
\* changes in no step other than a successful provisioning.
C23_ProvisionFailureEnds ==
    [][ /\ \A r \in Requests, e \in ExpiresInChoices :
              (/\ req[r].first_status = 429 /\ req[r].first_quota
               /\ req[r].rotated /\ req[r].alt = None
               /\ req[r].pc = "provision"
               /\ Provision(r, FALSE, e)) =>
                  /\ req'[r].pc = "client_close"
                  /\ req'[r].outcome = "fail"
                  /\ req'[r].status = 429
                  /\ req'[r].posts = 1
                  /\ UNCHANGED pool
        /\ RecordSet(tokens') # RecordSet(tokens) =>
              \E r \in Requests, e \in ExpiresInChoices : Provision(r, TRUE, e)
        /\ \A r \in Requests :
              (req[r].pc = "client_close" /\ req'[r] # req[r]) =>
                  /\ req'[r].pc = "done"
                  /\ req'[r].outcome = req[r].outcome
                  /\ req'[r].status = req[r].status
                  /\ req'[r].posts = req[r].posts
      ]_vars

\* a request of each driver ended so: one POST, quota-429, no alternate, one
\* provisioning call that failed, with the single record the store began with
C23_Witness ==
    \A r \in Requests :
        /\ req[r].pc = "done" /\ req[r].outcome = "fail" /\ req[r].status = 429
        /\ req[r].first_quota /\ req[r].rotated /\ req[r].alt = None
        /\ req[r].provisions = 1 /\ req[r].posts = 1
        /\ Len(tokens) = 1

\* C24: when the POST, the read of the body of its answer or the read of the
\* event lines raises a network error or a timeout, the request hands the
\* error to its caller: the step of the error calls no selector and changes
\* no record (failure_count and is_active included) and nothing of the
\* request but its position; all the request does afterwards is to close the
\* response, when one is open, and its client, which changes no record
\* either, and to raise the error; then it takes no further step, so it opens
\* no other upstream transaction.
C24_NetworkErrorPropagates ==
    [][ /\ \A r \in Requests :
              NetworkError(r) =>
                  /\ req'[r] = [req[r] EXCEPT
                                   !.pc = IF req[r].pc \in {"aread", "stream"}
                                          THEN "aclose" ELSE "client_close",
                                   !.outcome = "error"]
                  /\ ret' = NoCall
                  /\ UNCHANGED pool
        /\ \A r \in Requests :
              (req[r].outcome = "error" /\ req'[r] # req[r]) =>
                  /\ req[r].pc \in {"aclose", "client_close"}
                  /\ req'[r].pc = IF req[r].pc = "aclose" THEN "client_close"
                                  ELSE "raised"
                  /\ req'[r].posts = req[r].posts
                  /\ req'[r].outcome = "error"
                  /\ ret' = NoCall
                  /\ UNCHANGED pool
        /\ \A r \in Requests : req[r].pc = "raised" => req'[r] = req[r] ]_vars

\* the second POST of a request, sent after a rotation, was answered 500 and
\* the read of the body of that answer raised
C24_Witness ==
    \E r \in Requests :
        /\ req[r].pc = "raised" /\ req[r].outcome = "error"
        /\ req[r].rotated /\ req[r].posts = 2
        /\ req[r].response.status = ServerErrorStatus

\* C25: add_token(t, p') for a token t the store already holds, whatever the
\* priority p', leaves the store exactly as it was: the list of records and
\* its order, every field of every record, both cursor maps and the failed set.
C25_AddIdempotent ==
    [][ \A t \in TokenIds, p \in TokenPriority :
            (InPool(t) /\ AddToken(t, p)) => UNCHANGED pool ]_vars

\* add_token was just called with a priority other than the one the record of
\* that token has, after the record was selected and had a failure counted
C25_Witness ==
    /\ LastCall.op = "add_token"
    /\ InPool(LastCall.arg)
    /\ PriorityOf(LastCall.arg) # LastCall.res
    /\ tokens[PositionOf(LastCall.arg)].last_used > 0
    /\ tokens[PositionOf(LastCall.arg)].failure_count > 0
    /\ current_index # ZeroIndex
    /\ last_used_index # ZeroIndex

DistinctTokens(toks) ==
    \A i, j \in 1..Len(toks) : toks[i].refresh_token = toks[j].refresh_token => i = j

\* C26: no two records of the store hold the same refresh_token, in every
\* reachable state: after an initialization whose lists repeat a token (the
\* token is registered once, with the priority of the first list that holds
\* it) and after add_token calls that repeat a token.
C26_UniqueTokens ==
    /\ DistinctTokens(tokens)
    /\ \A cfg \in EnvConfigs :
          LET toks == Initialize(cfg[1], cfg[2], cfg[3])
              firstList(t) == IF cfg[1] = t THEN ANONYMOUS
                              ELSE IF \E k \in 1..Len(cfg[2]) : cfg[2][k] = t THEN SHARED
                              ELSE PERSONAL
          IN  /\ DistinctTokens(toks)
              /\ \A i \in 1..Len(toks) :
                    toks[i].priority = firstList(toks[i].refresh_token)
    /\ LastCall.op = "add_token" =>
          Cardinality({i \in Positions : tokens[i].refresh_token = LastCall.arg}) = 1

\* the store was initialized from lists that name token 1 twice (anonymous
\* token and personal list) and add_token was just called for that token again
C26_Witness ==
    /\ \E cfg \in EnvConfigs :
          LET toks == Initialize(cfg[1], cfg[2], cfg[3]) IN
          /\ cfg[1] # None
          /\ \E k \in 1..Len(cfg[3]) : cfg[3][k] = cfg[1]
          /\ Len(tokens) = Len(toks)
          /\ \A i \in 1..Len(toks) :
                /\ tokens[i].refresh_token = toks[i].refresh_token
                /\ tokens[i].priority = toks[i].priority
    /\ LastCall.op = "add_token"
    /\ LastCall.arg = 1
    /\ LastCall.res = PERSONAL
    /\ PriorityOf(1) = ANONYMOUS

\* C30: after a selector call returned record r, get_last_used_token returns r
\* until the next selector call returns a record; it returns none iff no
\* selector call has returned a record yet.
C30_LastUsedIsLastReturned ==
    LET last_used == get_last_used_token(tokens) IN
    /\ last_used = None <=> hist = <<>>
    /\ hist # <<>> => tokens[last_used].refresh_token = hist[1]

\* C27: the event list of the parsed driver holds the decoded frames in the
\* order in which their terminating blank lines were read, numbered 1..n
\* without a gap: none omitted, none twice, none out of order.
C27_EventsInWireOrder ==
    sse.pc \in {"open", "returned"} =>
        LET events == sse.run["parsed"].events IN
        /\ Len(events) = Len(hist)
        /\ sse.run["parsed"].event_count = Len(hist)
        /\ \A i \in 1..Len(events) :
              /\ events[i].event_number = i
              /\ events[i].parsed_data = hist[i]

\* the parsed driver returned three different events, read from six lines in
\* both framings
C27_Witness ==
    /\ sse.pc = "returned"
    /\ sse.lines = MaxLines
    /\ Len(sse.run["parsed"].events) = 3
    /\ hist = <<EvInit, EvMessages, EvHel>>

\* C28: for every byte string b over the bytes of the model, the payload
\* decoder of each driver returns b for the hex text of b and for the
\* URL-safe base64 text of b without padding.
C28_FramingRoundTrip ==
    sse.pc = "payload" =>
        \A d \in Drivers : sse.decoded[d] => sse.raw_bytes[d] = sse.bytes

RECURSIVE WireTexts(_)
\* the non-empty agent_output texts of a list of messages
WireTexts(messages) ==
    IF messages = <<>> THEN <<>>
    ELSE LET m == Head(messages)
         IN  (IF m.agent_output THEN m.text ELSE <<>>) \o WireTexts(Tail(messages))

RECURSIVE TextOfActions(_)
TextOfActions(actions) ==
    IF actions = <<>> THEN <<>>
    ELSE LET a == Head(actions)
         IN  (IF a.kind = "append_to_message_content" THEN a.text
              ELSE IF a.kind = "add_messages_to_task" THEN WireTexts(a.messages)
              ELSE <<>>) \o TextOfActions(Tail(actions))

RECURSIVE TextOfEvents(_)
TextOfEvents(events) ==
    IF events = <<>> THEN <<>>
    ELSE (IF Head(events).client_actions.present
          THEN TextOfActions(Head(events).client_actions.actions)
          ELSE <<>>) \o TextOfEvents(Tail(events))

\* C29: the text the parsed driver returns is the concatenation, in wire
\* order, of the agent_output texts carried by the append_to_message_content
\* and add_messages_to_task actions of all decoded events, with or without
\* init in the event.
C29_ParsedText ==
    sse.pc = "returned" => sse.run["parsed"].text = TextOfEvents(hist)

\* "hel" came in an event that holds init, "lo" in one that does not: the
\* parsed driver returned "hello"
C29_Witness ==
    /\ sse.pc = "returned"
    /\ hist = <<EvInitHel, EvLo>>
    /\ sse.run["parsed"].text = <<"h", "e", "l", "l", "o">>

\* C31: reading a data line whose payload is exactly "[DONE]" makes both
\* drivers return what they held before that line, and once the marker was
\* read no further line is read: events, text, conversation_id and task_id
\* stay as they were.
C31_DoneEndsStream ==
    [][ /\ ( /\ sse.pc = "open" /\ sse'.pc \in {"open", "returned"}
              /\ ~sse.done /\ sse'.done ) =>
                /\ sse'.pc = "returned"
                /\ \A d \in Drivers : sse'.run[d] = Return(d, sse.run[d])
        /\ sse.pc \in {"open", "returned"} /\ sse.done => UNCHANGED sse ]_vars

\* the marker came as the fourth line, after one decoded frame, with lines
\* still to be read
C31_Witness ==
    /\ sse.pc = "returned"
    /\ sse.done
    /\ sse.lines = 4
    /\ hist = <<EvInitHel>>
    /\ sse.run["parsed"].text = <<"h", "e", "l">>
    /\ sse.run["plain"].text = <<"h", "e", "l">>

\* C32: the blank line that ends a frame whose payload is no hex and no
\* base64, or whose bytes are no ResponseEvent, changes nothing in either
\* driver but the accumulator, which becomes empty: no event, no text, the
\* same identifiers, and the stream stays open, so that the frames decoded
\* from the lines that follow are the ones the parsed driver emits.
C32_FailedFrameSkipped ==
    [][ /\ ( /\ sse.pc = "open" /\ sse'.pc \in {"open", "returned"}
              /\ Len(sse'.skipped) > Len(sse.skipped) ) =>
                /\ sse'.pc = "open"
                /\ \A d \in Drivers :
                      /\ sse.run[d].current_data # <<>>
                      /\ FrameFailure(sse.run[d].current_data) # ""
                      /\ sse'.run[d] = [sse.run[d] EXCEPT !.current_data = <<>>]
        /\ sse'.pc \in {"open", "returned"} =>
              /\ Len(sse'.run["parsed"].events) = Len(hist')
              /\ \A i \in 1..Len(hist') :
                    sse'.run["parsed"].events[i].parsed_data = hist'[i] ]_vars

\* a frame that is no hex and no base64, then a frame whose bytes are no
\* event, then a well-formed frame, which both drivers decoded
C32_Witness ==
    /\ sse.pc = "open"
    /\ sse.skipped = <<"payload", "protobuf">>
    /\ hist = <<EvInit>>
    /\ sse.run["parsed"].events[1].parsed_data = EvInit
    /\ \A d \in Drivers :
          /\ sse.run[d].event_count = 1
          /\ sse.run[d].conversation_id = "c-1"
          /\ sse.run[d].current_data = <<>>

\* C33: on the same lines the two drivers return the same conversation_id
\* and the same task_id, and the same text whenever the decoded events carry
\* a non-empty text.
C33_DriversAgree ==
    sse.pc = "returned" =>
        /\ sse.run["plain"].conversation_id = sse.run["parsed"].conversation_id
        /\ sse.run["plain"].task_id = sse.run["parsed"].task_id
        /\ TextOfEvents(hist) # <<>> =>
              sse.run["plain"].text = sse.run["parsed"].text

\* C34: called against the same store with the same upstream answers, refresh
\* outcomes and provisioning outcome, the two drivers make the same calls of
\* the selectors, of the refresh, of the provisioning and of the upstream in
\* the same order, and both succeed or both fail with the same status.
C34_SameCallsSameOutcome ==
    ( /\ sse.pc = "pair"
      /\ \A r \in Requests : req[r].pc = "done" ) =>
        /\ sse.calls["plain"] = sse.calls["parsed"]
        /\ \A r, o \in Requests :
              /\ req[r].outcome = req[o].outcome
              /\ req[r].status = req[o].status
              /\ req[r].posts = req[o].posts
              /\ req[r].provisions = req[o].provisions

\* C35: in every reachable store state a record that is active has fewer than
\* three counted failures, and a record whose refresh token is in the failed
\* set is inactive.
C35_ActiveBelowLimit ==
    \A i \in Positions :
        /\ tokens[i].is_active => tokens[i].failure_count < max_failures
        /\ tokens[i].refresh_token \in failed_tokens => ~tokens[i].is_active

\* one record deactivated by its third failure, one still active after two
\* failures, and one that mark_token_success took out of the failed set
\* without reactivating it
C35_Witness ==
    \E i, j, k \in Positions :
        /\ tokens[i].refresh_token \in failed_tokens
        /\ tokens[i].failure_count = max_failures
        /\ tokens[j].is_active /\ tokens[j].failure_count = max_failures - 1
        /\ ~tokens[k].is_active /\ tokens[k].failure_count = 0
        /\ tokens[k].refresh_token \notin failed_tokens

\* C36: the credential of a second POST is never the credential of the first
\* one; it is the credential of a pool record other than the record of the
\* first POST, and that record is the one get_next_token_excluding returned
\* or one that anonymous provisioning added after the first POST.
C36_SecondIdentityDiffers ==
    \A r \in Requests :
        LET q == req[r] IN
        q.posts = 2 =>
            /\ q.jwt # q.first_jwt
            /\ q.jwt \in StoreIds
            /\ InPool(q.jwt)
            /\ \/ q.alt # None /\ q.jwt = Jwt(q.alt) /\ q.alt # q.excl_arg
               \/ q.provisions >= 1 /\ q.jwt \in q.marked /\ q.jwt # q.sel

\* one request rotated: its first POST went with the credential of the record
\* selected first, the second with that of the alternate; another request
\* found no alternate and sent its second POST with the credential of the
\* identity provisioned after the first answer
C36_Witness ==
    \E r, o \in Requests :
        /\ req[r].posts = 2
        /\ req[r].pc = "done"
        /\ req[r].first_jwt = Jwt(req[r].sel)
        /\ req[r].excl_arg = req[r].sel
        /\ req[r].alt # None
        /\ req[r].jwt = Jwt(req[r].alt)
        /\ req[r].jwt # req[r].first_jwt
        /\ req[o].posts = 2
        /\ req[o].pc = "done"
        /\ req[o].first_jwt = Jwt(req[o].sel)
        /\ req[o].alt = None
        /\ req[o].provisions = 1
        /\ req[o].jwt \in req[o].marked
        /\ req[o].jwt # req[o].first_jwt

\* C37: whatever the order in which the first callers run, one TokenPool is
\* constructed, the environment's tokens are loaded once, and every selection
\* runs on the initialized pool: it sees the loaded records.
C37_InitializedOnce ==
    sse.pc = "start" =>
        /\ sse.instances <= 1
        /\ sse.loads <= 1
        /\ sse.initialized <=> sse.loads = 1
        /\ sse.initialized => tokens # <<>> /\ DistinctTokens(tokens)
        /\ ~sse.initialized => tokens = <<>>
        /\ Len(tokens) <= Len(Initialize(sse.cfg[1], sse.cfg[2], sse.cfg[3]))
        /\ \A c \in Callers :
              /\ sse.caller[c].pc # "idle" => sse.instances = 1
              /\ sse.caller[c].pc \in {"select", "done"} => sse.initialized
              /\ sse.caller[c].pc = "done" =>
                    /\ sse.caller[c].initialized
                    /\ sse.caller[c].selector = "get_next_token" =>
                          sse.caller[c].res # None
                    /\ sse.caller[c].res # None => InPool(sse.caller[c].res)

\* a caller found the global already set while the caller that constructed it
\* was still waiting for initialize, ran initialize itself from the selector,
\* and all three callers selected from the pool loaded once
C37_Witness ==
    /\ sse.pc = "start"
    /\ sse.instances = 1
    /\ sse.loads = 1
    /\ \A c \in Callers : sse.caller[c].pc = "done" /\ sse.caller[c].res # None
    /\ \E c, d \in Callers :
          /\ sse.caller[c].awaited = "get_token_pool:initialize"
          /\ sse.caller[c].selector = "get_next_token"
          /\ sse.caller[d].awaited = "selector:initialize"
          /\ sse.caller[d].selector = "get_next_token_excluding"

RECURSIVE NextResults(_, _, _, _)
\* the refresh tokens that n successive get_next_token calls return from the
\* store toks with cursor cur
NextResults(toks, failed, cur, n) ==
    IF n = 0 THEN <<>>
    ELSE LET g == get_next_token(toks, failed, cur, 0)
         IN  <<IF g.tok = None THEN None ELSE toks[g.tok].refresh_token>>
             \o NextResults(toks, failed, g.current_index, n - 1)

\* C38: a get_next_token_excluding call leaves _current_index as it was, and
\* the records that the following get_next_token calls return are those they
\* would have returned without it.
C38_ExcludingKeepsCursor ==
    [][ ret'.op = "get_next_token_excluding" =>
           /\ current_index' = current_index
           /\ NextResults(tokens', failed_tokens', current_index', MaxTokens + 1)
                = NextResults(tokens, failed_tokens, current_index, MaxTokens + 1) ]_vars

\* get_next_token_excluding returned a record in the middle of a round of
\* get_next_token over a class of three records; the two cursors differ
C38_Witness ==
    /\ ret.op = "get_next_token_excluding"
    /\ ret.res # None
    /\ Len(hist) = 2
    /\ Cardinality(TopClass(tokens, failed_tokens)) = 3
    /\ \E p \in TokenPriority :
          /\ current_index[p] = 2
          /\ last_used_index[p] = 1

\* C39: the event list, the text fragments and the identifiers of a driver
\* change only in the step that reads a blank line while the accumulator holds
\* a frame; when the stream ends or the end marker is read with data lines
\* still in the accumulator, the driver returns the events and the text it
\* held, and the accumulated payload is dropped.
C39_EmitOnBlankLineOnly ==
    [][ (sse.pc = "open" /\ sse'.pc \in {"open", "returned"}) =>
          \A d \in Drivers :
              /\ ( \/ sse'.run[d].events # sse.run[d].events
                   \/ sse'.run[d].event_count # sse.run[d].event_count
                   \/ sse'.run[d].complete_response # sse.run[d].complete_response
                   \/ sse'.run[d].conversation_id # sse.run[d].conversation_id
                   \/ sse'.run[d].task_id # sse.run[d].task_id ) =>
                     /\ hist' # hist
                     /\ sse.run[d].current_data # <<>>
                     /\ sse'.run[d].current_data = <<>>
                     /\ sse'.pc = "open"
              /\ sse'.pc = "returned" =>
                     /\ hist' = hist
                     /\ sse'.run[d].current_data = sse.run[d].current_data
                     /\ sse'.run[d].text \in {Join(sse.run[d].complete_response),
                                              NoContentWarning} ]_vars

\* a frame was decoded, then the data line of a second, well-formed frame was
\* read and the end marker came before its blank line: no second event
C39_Witness ==
    /\ sse.pc = "returned"
    /\ sse.done
    /\ hist = <<EvInitHel>>
    /\ \A d \in Drivers :
          /\ sse.run[d].current_data = Base64UrlText(<<26>>)
          /\ sse.run[d].event_count = 1
          /\ sse.run[d].text = <<"h", "e", "l">>

\* C40: the handler wrapped with require_auth has run only if authenticate
\* accepted the Authorization header of the request: an expected token is
\* configured and the header is "Bearer " followed by that token.
C40_HandlerOnlyAfterAuth ==
    (sse.pc \in {"func", "returned"} /\ "handled" \in DOMAIN sse) =>
        /\ sse.authenticated
        /\ sse.expected_token # NoText
        /\ sse.authorization = BearerPrefix \o sse.expected_token

====
